---------------------------- MODULE Spec2Model ----------------------------
(***************************************************************************)
(* Transaction Fact Store and Pipeline Coordinator of the AML risk         *)
(* assessment service.  One transaction namespace RESULTS_FOLDER/T is      *)
(* modelled: its directory tree and files, the two save/load              *)
(* implementations (API and DAG side), the knowledge-base skeleton, the    *)
(* layout migration, the Airflow task graph and the API status resolver.   *)
(*                                                                         *)
(* A path is the sequence of its components relative to RESULTS_FOLDER/T;  *)
(* <<>> is the transaction folder itself.  A file content is a record      *)
(* [kind, val]; kind "corrupt" is a file json.load cannot parse.           *)
(***************************************************************************)
EXTENDS Naturals, Sequences, FiniteSets, TLC

VARIABLES
    faults,       \* failures of collaborators and of file copies injected so far
    fs,           \* [dirs, files]: the directories and files of RESULTS_FOLDER/T
    resultFile,   \* the legacy flat file RESULTS_FOLDER/result_<T>.json exists
    store,        \* transaction_store.get(T) of the API process
    task,         \* Airflow task instance states of the DAG run of T
    tries,        \* attempts of extract_entities so far
    mig,          \* the running migrate_existing_transaction call
    migRuns,      \* number of migrate calls started
    migPre,       \* files present when the current migrate call started
    rd,           \* the running load_transaction_data call of the API process
    lastStatus,   \* status of the last answer of get_transaction_status
    everCompleted,\* get_transaction_status has answered with the RiskAssessment
    puts,         \* API puts of entity_history.json so far
    lastPut,      \* [file, sub, path, by]: the last save_transaction_data call
    queries,      \* API reads started so far
    run,          \* state of the DAG run of T as the Airflow REST API reports it
    conf,         \* dag_run.conf of the DAG run: which keys it carries
    xcom,         \* return value each task of the DAG run pushed
    engine,       \* what the engine passes a task for an upstream value never pushed
    fan,          \* the mapped entity tasks of the run: inputs, returns, progress
    cb,           \* the last request process_callback handled and its response
    bulk,         \* the running bulk_upload_transactions request
    dash,         \* the results get_dashboard_stats finds and its last answer
    sync,         \* the running receive_transaction request with wait=true
    adp,          \* the enrichment adapter calls made for T and where they saved
    rot,          \* gemini_key_rotator and the running create_genai_model call
    ns,           \* concurrent create_transaction_folder_structure callers
    creators      \* callers that took the "folder does not exist" branch

vars == <<faults, fs, resultFile, store, task, tries, mig, migRuns, migPre,
          rd, lastStatus, everCompleted, puts, lastPut, queries, run, conf, xcom,
          engine, fan, cb, bulk, dash, sync, adp, rot, ns, creators>>

\* the requests of the API that touch no state of the transaction T
apiVars == <<bulk, dash, sync, adp, rot>>

\* the library calls followed on their own
libVars == <<adp, rot>>

---------------------------------------------------------------------------
(* Paths and file contents *)

Root == <<>>

Dirname(p) == SubSeq(p, 1, Len(p) - 1)

Prefixes(p) == { SubSeq(p, 1, n) : n \in 0..Len(p) }

Doc(v) == [kind |-> "doc", val |-> v]

Corrupt == [kind |-> "corrupt", val |-> ""]

None == [kind |-> "none", val |-> ""]

FolderMeta == [kind |-> "folder_metadata", val |-> ""]

Metadata(status) == [kind |-> "metadata", val |-> status]

EmptyFs == [dirs |-> {}, files |-> <<>>]

Exists(f, p) == p \in f.dirs \/ p \in DOMAIN f.files

IsFile(f, p) == p \in DOMAIN f.files

IsDir(f, p) == p \in f.dirs

Makedirs(f, p) == [f EXCEPT !.dirs = @ \cup Prefixes(p)]

WriteFile(f, p, c) == [f EXCEPT !.files = (p :> c) @@ @]

RemoveFile(f, p) ==
    [f EXCEPT !.files = [q \in (DOMAIN @) \ {p} |-> @[q]]]

FilesUnder(f, d) ==
    { q \in DOMAIN f.files : Len(q) > Len(d) /\ SubSeq(q, 1, Len(d)) = d }

DirsUnder(f, d) ==
    { q \in f.dirs : Len(q) >= Len(d) /\ SubSeq(q, 1, Len(d)) = d }

Rebase(q, from, to) == to \o SubSeq(q, Len(from) + 1, Len(q))

---------------------------------------------------------------------------
(* Static tables *)

\* KnowledgeBaseFolderStructure.FOLDER_STRUCTURE, in the order in which
\* _create_folder_hierarchy walks it (a folder before its subfolders).
FOLDER_STRUCTURE ==
    << <<"entity_data">>,
       <<"entity_data", "organization_results">>,
       <<"entity_data", "organization_results", "opencorporates">>,
       <<"entity_data", "organization_results", "sanctions">>,
       <<"entity_data", "organization_results", "wikidata">>,
       <<"entity_data", "organization_results", "news">>,
       <<"entity_data", "people_results">>,
       <<"entity_data", "people_results", "pep">>,
       <<"entity_data", "people_results", "sanctions">>,
       <<"entity_data", "people_results", "news">>,
       <<"analysis_reports">>,
       <<"risk_assessments">> >>

SkeletonDirs == { FOLDER_STRUCTURE[i] : i \in DOMAIN FOLDER_STRUCTURE }

\* The directories the DAG-side get_transaction_folder creates.
LegacyDirs ==
    { <<"organization_results", "opencorporates">>,
      <<"organization_results", "sanctions">>,
      <<"organization_results", "wikidata">>,
      <<"organization_results", "news">>,
      <<"people_results", "pep">>,
      <<"people_results", "sanctions">>,
      <<"people_results", "news">> }

\* kb_subfolder_mapping of the API-side save/load_transaction_data.
kb_subfolder_mapping ==
    [ s \in LegacyDirs \cup { <<"organization_results">>, <<"people_results">> }
        |-> <<"entity_data">> \o s ]

\* kb_file_mapping of the API-side save/load_transaction_data.
kb_file_mapping ==
    ("entities.json" :> <<"entity_data", "entities.json">>) @@
    ("risk_assessment.json" :> <<"risk_assessments", "risk_assessment.json">>) @@
    ("raw_assessment_data.json" :> <<"analysis_reports", "raw_assessment_data.json">>) @@
    ("entity_history.json" :> <<"analysis_reports", "entity_history.json">>) @@
    ("wikidata_discovered_people.json" :> <<"entity_data", "wikidata_discovered_people.json">>)

\* Mutant of the migration table: entity_history.json is sent to the legacy
\* root name of another entry instead of its analysis_reports location.
path_mappings_chained ==
    << << <<"transaction.txt">>, <<"entity_data", "transaction.txt">> >>,
       << <<"entities.json">>, <<"entity_data", "entities.json">> >>,
       << <<"risk_assessment.json">>, <<"risk_assessments", "risk_assessment.json">> >>,
       << <<"raw_assessment_data.json">>, <<"analysis_reports", "raw_assessment_data.json">> >>,
       << <<"entity_history.json">>, <<"raw_assessment_data.json">> >>,
       << <<"wikidata_discovered_people.json">>, <<"entity_data", "wikidata_discovered_people.json">> >>,
       << <<"organization_results">>, <<"entity_data", "organization_results">> >>,
       << <<"people_results">>, <<"entity_data", "people_results">> >> >>

\* path_mappings of _migrate_files, in dict order: <<orig_path, new_path>>.
path_mappings ==
    << << <<"transaction.txt">>, <<"entity_data", "transaction.txt">> >>,
       << <<"entities.json">>, <<"entity_data", "entities.json">> >>,
       << <<"risk_assessment.json">>, <<"risk_assessments", "risk_assessment.json">> >>,
       << <<"raw_assessment_data.json">>, <<"analysis_reports", "raw_assessment_data.json">> >>,
       << <<"entity_history.json">>, <<"analysis_reports", "entity_history.json">> >>,
       << <<"wikidata_discovered_people.json">>, <<"entity_data", "wikidata_discovered_people.json">> >>,
       << <<"organization_results">>, <<"entity_data", "organization_results">> >>,
       << <<"people_results">>, <<"entity_data", "people_results">> >> >>

---------------------------------------------------------------------------
(* Namespace skeleton: knowledge_base_utils.py *)

\* One iteration of the loop of _create_folder_hierarchy.
CreateFolder(f, d) ==
    IF ~Exists(f, d)
    THEN WriteFile(Makedirs(f, d), d \o <<".metadata.json">>, FolderMeta)
    ELSE f

RECURSIVE CreateFolderHierarchyFrom(_, _)
CreateFolderHierarchyFrom(f, i) ==
    IF i > Len(FOLDER_STRUCTURE) THEN f
    ELSE CreateFolderHierarchyFrom(CreateFolder(f, FOLDER_STRUCTURE[i]), i + 1)

_create_folder_hierarchy(f) == CreateFolderHierarchyFrom(f, 1)

_create_folder_metadata(f) == WriteFile(f, <<".metadata.json">>, FolderMeta)

\* Mutant: the root .metadata.json is written again, with a later
\* created_at, when the folder was there.
create_structure_metadata_always(f) ==
    _create_folder_hierarchy(
        IF ~Exists(f, Root)
        THEN _create_folder_metadata(Makedirs(f, Root))
        ELSE WriteFile(f, <<".metadata.json">>,
                       [kind |-> "folder_metadata", val |-> "rewritten"]))

create_transaction_folder_structure(f) ==
    _create_folder_hierarchy(
        IF ~Exists(f, Root)
        THEN _create_folder_metadata(Makedirs(f, Root))
        ELSE f)

initialize_knowledge_base(f) == create_transaction_folder_structure(f)

---------------------------------------------------------------------------
(* put / get: api/utils/transaction_folder.py and dags/utils/transaction_folder.py *)

NoSub == <<>>    \* subfolder=None

\* API side: the folder is created with the knowledge-base structure.
ApiGetTransactionFolder(f) ==
    IF ~Exists(f, Root) THEN initialize_knowledge_base(f) ELSE f

\* DAG side: the folder is created with the legacy result directories.
DagGetTransactionFolder(f) ==
    IF ~Exists(f, Root)
    THEN [f EXCEPT !.dirs = @ \cup {Root}
                       \cup UNION { Prefixes(d) : d \in LegacyDirs }]
    ELSE f

\* Physical path the API-side save_transaction_data writes.
ApiSavePath(file_name, subfolder) ==
    IF subfolder # NoSub
    THEN (IF subfolder \in DOMAIN kb_subfolder_mapping
          THEN kb_subfolder_mapping[subfolder] ELSE subfolder) \o <<file_name>>
    ELSE IF file_name \in DOMAIN kb_file_mapping
         THEN kb_file_mapping[file_name]
         ELSE <<file_name>>

\* Physical path the DAG-side save_transaction_data writes.
DagSavePath(file_name, subfolder) == subfolder \o <<file_name>>

ApiSave(f, file_name, data, subfolder) ==
    LET p == ApiSavePath(file_name, subfolder)
    IN  WriteFile(Makedirs(ApiGetTransactionFolder(f), Dirname(p)), p, data)

DagSave(f, file_name, data, subfolder) ==
    LET p == DagSavePath(file_name, subfolder)
    IN  WriteFile(Makedirs(DagGetTransactionFolder(f), Dirname(p)), p, data)

\* json.load of the file at p: the document, or None when open or parse fails.
ReadJson(f, p) ==
    IF IsFile(f, p) /\ f.files[p].kind # "corrupt" THEN f.files[p] ELSE None

\* The new-structure path load_transaction_data probes first (NoPath: none).
NoPath == <<"">>

LoadNewPath(file_name, subfolder) ==
    IF subfolder # NoSub
    THEN (IF subfolder \in DOMAIN kb_subfolder_mapping
          THEN kb_subfolder_mapping[subfolder] \o <<file_name>>
          ELSE NoPath)
    ELSE IF file_name \in DOMAIN kb_file_mapping
         THEN kb_file_mapping[file_name]
         ELSE NoPath

\* The old-structure path load_transaction_data falls back to.
LoadOldPath(file_name, subfolder) == subfolder \o <<file_name>>

(* load_transaction_data of the API, one file-system call per step.       *)
(* r = [pc, file, sub, result]; pc: "folder" -> "new_exists" -> "new_read" *)
(* -> "old_exists" -> "old_read" -> "done".                                *)
LoadStart(file_name, subfolder) ==
    [pc |-> "folder", file |-> file_name, sub |-> subfolder, result |-> None]

\* Mutant: the old-structure path is probed before the new-structure path.
LoadStepLegacyFirst(f, r) ==
    LET new == LoadNewPath(r.file, r.sub)
        old == LoadOldPath(r.file, r.sub)
    IN  CASE r.pc = "folder" ->
               IF ~Exists(f, Root) THEN [r EXCEPT !.pc = "done", !.result = None]
               ELSE [r EXCEPT !.pc = "old_exists"]
          [] r.pc = "old_exists" ->
               IF Exists(f, old) THEN [r EXCEPT !.pc = "old_read"]
               ELSE [r EXCEPT !.pc = "new_exists"]
          [] r.pc = "old_read" ->
               IF ReadJson(f, old) # None
               THEN [r EXCEPT !.pc = "done", !.result = ReadJson(f, old)]
               ELSE [r EXCEPT !.pc = "new_exists"]
          [] r.pc = "new_exists" ->
               IF new # NoPath /\ Exists(f, new) THEN [r EXCEPT !.pc = "new_read"]
               ELSE [r EXCEPT !.pc = "done", !.result = None]
          [] r.pc = "new_read" ->
               [r EXCEPT !.pc = "done", !.result = ReadJson(f, new)]
          [] OTHER -> r

LoadStep(f, r) ==
    LET new == LoadNewPath(r.file, r.sub)
        old == LoadOldPath(r.file, r.sub)
    IN  CASE r.pc = "folder" ->
               IF ~Exists(f, Root) THEN [r EXCEPT !.pc = "done", !.result = None]
               ELSE IF new # NoPath THEN [r EXCEPT !.pc = "new_exists"]
               ELSE [r EXCEPT !.pc = "old_exists"]
          [] r.pc = "new_exists" ->
               IF Exists(f, new) THEN [r EXCEPT !.pc = "new_read"]
               ELSE [r EXCEPT !.pc = "old_exists"]
          [] r.pc = "new_read" ->
               IF ReadJson(f, new) # None
               THEN [r EXCEPT !.pc = "done", !.result = ReadJson(f, new)]
               ELSE [r EXCEPT !.pc = "old_exists"]
          [] r.pc = "old_exists" ->
               IF Exists(f, old) THEN [r EXCEPT !.pc = "old_read"]
               ELSE [r EXCEPT !.pc = "done", !.result = None]
          [] r.pc = "old_read" ->
               [r EXCEPT !.pc = "done", !.result = ReadJson(f, old)]
          [] OTHER -> r

\* load_transaction_data run to its end on an unchanging file system.
ApiLoad(f, file_name, subfolder) ==
    LoadStep(f, LoadStep(f, LoadStep(f, LoadStep(f, LoadStep(f,
        LoadStart(file_name, subfolder)))))).result

\* DAG side load_transaction_data: the old-structure path only.
DagLoad(f, file_name, subfolder) ==
    IF ~Exists(f, Root) THEN None
    ELSE ReadJson(f, subfolder \o <<file_name>>)

---------------------------------------------------------------------------
(* migrate: KnowledgeBaseFolderStructure.migrate_existing_transaction *)

(* m = [pc, idx, result, raised, owner].  pc: "idle" -> "begin" ->         *)
(* ("check" -> ("copy" ->)? ("remove")?)* -> "done"; idx is the entry of    *)
(* path_mappings the loop of _migrate_files is at; result is the boolean    *)
(* returned; raised: a file operation raised into the except of line 184.   *)
MigIdle == [pc |-> "idle", idx |-> 0, result |-> FALSE, raised |-> FALSE, owner |-> "none"]

CopyOutcomes == {"ok", "fail_before_write", "fail_partial"}

Orig(i) == path_mappings[i][1]

New(i) == path_mappings[i][2]

\* shutil.copytree(source, target) followed by shutil.rmtree(source).
CopyTreeRmTree(f, src, dst) ==
    [dirs  |-> (f.dirs \ DirsUnder(f, src))
                 \cup { Rebase(d, src, dst) : d \in DirsUnder(f, src) },
     files |-> [q \in ((DOMAIN f.files) \ FilesUnder(f, src))
                        \cup { Rebase(x, src, dst) : x \in FilesUnder(f, src) }
                 |-> IF \E x \in FilesUnder(f, src) : Rebase(x, src, dst) = q
                     THEN f.files[CHOOSE x \in FilesUnder(f, src) : Rebase(x, src, dst) = q]
                     ELSE f.files[q]]]

\* Lines 165-174: the folder test and create_transaction_folder_structure.
MigBegin(f, m) ==
    IF ~Exists(f, Root)
    THEN [fs |-> f, mig |-> [m EXCEPT !.pc = "done", !.result = FALSE]]
    ELSE [fs |-> create_transaction_folder_structure(f),
          mig |-> [m EXCEPT !.pc = "check", !.idx = 1]]

\* Mutant: the original is removed before it is copied.
MigCheckRemoveFirst(f, m) ==
    IF m.idx > Len(path_mappings)
    THEN [fs |-> f, mig |-> [m EXCEPT !.pc = "done", !.result = TRUE]]
    ELSE IF ~Exists(f, Orig(m.idx))
    THEN [fs |-> f, mig |-> [m EXCEPT !.idx = @ + 1]]
    ELSE LET g == Makedirs(f, Dirname(New(m.idx)))
         IN  IF IsFile(g, Orig(m.idx))
             THEN [fs |-> RemoveFile(g, Orig(m.idx)), mig |-> [m EXCEPT !.pc = "copy"]]
             ELSE [fs |-> g, mig |-> [m EXCEPT !.idx = @ + 1]]

\* Lines 211-225 and 231-234: one entry of path_mappings up to the copy.
MigCheck(f, m) ==
    IF m.idx > Len(path_mappings)
    THEN [fs |-> f, mig |-> [m EXCEPT !.pc = "done", !.result = TRUE]]
    ELSE IF ~Exists(f, Orig(m.idx))
    THEN [fs |-> f, mig |-> [m EXCEPT !.idx = @ + 1]]
    ELSE LET g == Makedirs(f, Dirname(New(m.idx)))
         IN  IF IsFile(g, Orig(m.idx))
             THEN [fs |-> g,
                   mig |-> [m EXCEPT !.pc = IF ~Exists(g, New(m.idx))
                                            THEN "copy" ELSE "remove"]]
             ELSE IF IsDir(g, Orig(m.idx)) /\ ~Exists(g, New(m.idx))
             THEN [fs |-> CopyTreeRmTree(g, Orig(m.idx), New(m.idx)),
                   mig |-> [m EXCEPT !.idx = @ + 1]]
             ELSE [fs |-> g, mig |-> [m EXCEPT !.idx = @ + 1]]

\* Line 226: shutil.copy2.  A failure raises into the except of line 184;
\* it may leave no target or a partially written one.
MigCopy(f, m, outcome) ==
    IF ~IsFile(f, Orig(m.idx))
    THEN [fs |-> f, mig |-> [m EXCEPT !.pc = "done", !.result = FALSE, !.raised = TRUE]]
    ELSE CASE outcome = "ok" ->
                [fs |-> WriteFile(f, New(m.idx), f.files[Orig(m.idx)]),
                 mig |-> [m EXCEPT !.pc = "remove"]]
           [] outcome = "fail_partial" ->
                [fs |-> WriteFile(f, New(m.idx), Corrupt),
                 mig |-> [m EXCEPT !.pc = "done", !.result = FALSE, !.raised = TRUE]]
           [] OTHER ->
                [fs |-> f, mig |-> [m EXCEPT !.pc = "done", !.result = FALSE, !.raised = TRUE]]

\* Line 228: os.remove(source_path).
MigRemove(f, m) ==
    IF ~IsFile(f, Orig(m.idx))
    THEN [fs |-> f, mig |-> [m EXCEPT !.pc = "done", !.result = FALSE, !.raised = TRUE]]
    ELSE [fs |-> RemoveFile(f, Orig(m.idx)),
          mig |-> [m EXCEPT !.pc = "check", !.idx = @ + 1]]

MigStep(f, m, outcome) ==
    CASE m.pc = "begin"  -> MigBegin(f, m)
      [] m.pc = "check"  -> MigCheck(f, m)
      [] m.pc = "copy"   -> MigCopy(f, m, outcome)
      [] m.pc = "remove" -> MigRemove(f, m)
      [] OTHER           -> [fs |-> f, mig |-> m]

\* A whole migrate call in which no copy fails and nothing else runs.
RECURSIVE MigRun(_, _)
MigRun(f, m) ==
    IF m.pc \in {"done", "idle"} THEN [fs |-> f, mig |-> m]
    ELSE LET n == MigStep(f, m, "ok") IN MigRun(n.fs, n.mig)

migrate_existing_transaction(f) ==
    MigRun(f, [MigIdle EXCEPT !.pc = "begin"]).fs

---------------------------------------------------------------------------
(* Bounds *)

MaxQueries == 2       \* API reads (status queries and gets) per behaviour
MaxApiPuts == 1       \* entity-history requests that write per behaviour
MaxMigrateRuns == 2   \* migrate calls on a legacy transaction
MaxFaults == 1        \* injected failures per behaviour
MaxCallers == 2       \* concurrent first callers of create_transaction_folder_structure

\* default_args['retries'] of the DAG.
Retries == 1

\* An outcome that is a failure of a collaborator uses up one fault.
Fault(failed) ==
    IF failed
    THEN faults < MaxFaults /\ faults' = faults + 1
    ELSE UNCHANGED faults

---------------------------------------------------------------------------
(* Airflow task graph: dags/aml_risk_dag.py *)

Tasks ==
    { "get_transaction_data", "extract_entities", "get_entity_history",
      "process_organizations", "process_people", "process_discovered_people",
      "combine_results", "assess_risk", "organize_knowledge_base",
      "store_in_neo4j", "send_callback" }

\* a wiring in which combine_results does not take the entity results
UpstreamJoinEarly(t) ==
    CASE t = "get_transaction_data" -> {}
      [] t = "extract_entities" -> {"get_transaction_data"}
      [] t = "get_entity_history" -> {"get_transaction_data", "extract_entities"}
      [] t = "process_organizations" -> {"extract_entities", "get_entity_history"}
      [] t = "process_people" -> {"extract_entities", "get_entity_history"}
      [] t = "process_discovered_people" -> {"process_organizations", "get_entity_history"}
      [] t = "combine_results" ->
            {"get_transaction_data", "extract_entities", "get_entity_history"}
      [] t = "assess_risk" -> {"get_transaction_data", "combine_results"}
      [] t = "organize_knowledge_base" -> {"get_transaction_data", "assess_risk"}
      [] t = "store_in_neo4j" -> {"get_transaction_data", "extract_entities", "assess_risk"}
      [] t = "send_callback" ->
            {"get_transaction_data", "assess_risk", "organize_knowledge_base", "store_in_neo4j"}

\* The tasks whose XComArg a task takes, and the explicit >> of line 396.
Upstream(t) ==
    CASE t = "get_transaction_data" -> {}
      [] t = "extract_entities" -> {"get_transaction_data"}
      [] t = "get_entity_history" -> {"get_transaction_data", "extract_entities"}
      [] t = "process_organizations" -> {"extract_entities", "get_entity_history"}
      [] t = "process_people" -> {"extract_entities", "get_entity_history"}
      [] t = "process_discovered_people" -> {"process_organizations", "get_entity_history"}
      [] t = "combine_results" ->
            {"get_transaction_data", "extract_entities", "get_entity_history",
             "process_organizations", "process_people", "process_discovered_people"}
      [] t = "assess_risk" -> {"get_transaction_data", "combine_results"}
      [] t = "organize_knowledge_base" -> {"get_transaction_data", "assess_risk"}
      [] t = "store_in_neo4j" -> {"get_transaction_data", "extract_entities", "assess_risk"}
      [] t = "send_callback" ->
            {"get_transaction_data", "assess_risk", "organize_knowledge_base", "store_in_neo4j"}

TriggerRule(t) ==
    IF t \in {"combine_results", "send_callback"} THEN "all_done" ELSE "all_success"

Terminal == {"success", "failed", "upstream_failed", "skipped"}

\* The scheduler may start t.
Ready(t) ==
    /\ run = "running"
    /\ task[t] = "none"
    /\ IF TriggerRule(t) = "all_done"
       THEN \A u \in Upstream(t) : task[u] \in Terminal
       ELSE \A u \in Upstream(t) : task[u] = "success"

PipelineDone == run \in {"success", "failed"}

\* The tasks whose return value a task takes as an argument (XComArg).
Args(t) == Upstream(t) \ (IF t = "send_callback"
                          THEN {"organize_knowledge_base", "store_in_neo4j"} ELSE {})

\* Nothing pushed: the task did not return.
XNone == [kind |-> "none"]

\* What a task receives for an argument whose task pushed nothing: None
\* (recent Airflow 2 releases) or an exception that fails the task.
EngineKinds == {"returns_none", "raises"}

\* The arguments of t can be resolved.
Resolves(t) == engine = "returns_none" \/ \A u \in Args(t) : xcom[u] # XNone

\* dag_run.conf: whether it carries transaction_data, transaction_id and
\* callback_url.
\* the organizations of the extraction
Organizations == {"Acme"}

\* no bulk request is running
BulkIdle ==
    [pc |-> "idle", format |-> "", wait |-> FALSE, blocks |-> <<>>,
     transactions |-> <<>>, i |-> 0, outs |-> <<>>, triggered |-> {},
     results |-> <<>>, failed |-> <<>>, response |-> [code |-> 0]]

\* the transactions of RESULTS_FOLDER the dashboard is asked about
TxIds == {"T1", "T2"}

\* result_<id>.json and result_aml_run_<id>.json
LegacyKinds == {"plain", "aml_run"}

\* a results folder that holds nothing of these transactions
EmptyResults ==
    [id \in TxIds |-> [folder |-> FALSE, assessed |-> FALSE, legacy |-> {}]]

\* no result is stored and the dashboard has not been asked
DashIdle ==
    [all_results |-> <<>>, stats |-> [asked |-> FALSE], results_folder |-> EmptyResults]

\* no adapter has been called
AdpIdle == [n |-> 0, written |-> {}]

\* the rotator as constructed (every usage count 0), no call running
RotIdle ==
    [key_usage |-> [k \in {"k1", "k2"} |-> 0], calls |-> 0, pc |-> "idle",
     attempt |-> 0, current_key |-> "", used_keys |-> {}, picks |-> <<>>,
     outcome |-> "none"]

\* no synchronous submission is running
SyncIdle == [pc |-> "idle", seen |-> "none", response |-> "none"]

\* process_callback has handled no request
NoCallback == [n |-> 0, match |-> TRUE, status |-> "none", code |-> 0]

\* no mapped entity task has run
FanIdle ==
    [people     |-> {},
     org        |-> [o \in Organizations |->
                        [done |-> FALSE, discovered_people |-> <<>>]],
     discovered |-> [done |-> FALSE, list |-> <<>>],
     persons    |-> {},
     processed  |-> {},
     last       |-> [kind |-> "none", name |-> "", out |-> <<>>, state |-> "none",
                     results |-> <<>>]]

NoConf == [has_data |-> FALSE, has_id |-> FALSE, has_callback |-> FALSE]

\* The conf trigger_airflow_dag sends.
ApiConf == [has_data |-> TRUE, has_id |-> TRUE, has_callback |-> TRUE]

---------------------------------------------------------------------------
(* Initial states *)

NoEntry == [known |-> FALSE, has_ids |-> FALSE, status |-> "none", result_path |-> "none"]

RdIdle ==
    [pc |-> "idle", file |-> "", sub |-> NoSub, result |-> None,
     purpose |-> "none", folder |-> FALSE, existed |-> FALSE]

NoPut == [file |-> "", sub |-> NoSub, path |-> NoPath, by |-> "none"]

\* A transaction folder written by the DAG-side utilities alone: the legacy
\* directories, the root documents and one provider result.
LegacyFolder ==
    DagSave(
      DagSave(
        DagSave(
          DagSave(
            DagSave(EmptyFs, "transaction.txt", Doc("text"), NoSub),
            "entities.json", Doc("entities"), NoSub),
          "entity_history.json", Doc("history_dag"), NoSub),
        "risk_assessment.json", Doc("assessment"), NoSub),
      "Acme.json", Doc("sanctions"), <<"organization_results", "sanctions">>)

Init ==
    /\ faults = 0
    /\ fs = EmptyFs
    /\ resultFile = FALSE
    /\ store = NoEntry
    /\ task = [t \in Tasks |-> "none"]
    /\ tries = 0
    /\ mig = MigIdle
    /\ migRuns = 0
    /\ migPre = <<>>
    /\ rd = RdIdle
    /\ lastStatus = "none"
    /\ everCompleted = FALSE
    /\ puts = 0
    /\ lastPut = NoPut
    /\ queries = 0
    /\ run = "none"
    /\ conf = NoConf
    /\ xcom = [t \in Tasks |-> XNone]
    /\ engine = "returns_none"
    /\ fan = FanIdle
    /\ cb = NoCallback
    /\ bulk = BulkIdle
    /\ dash = DashIdle
    /\ sync = SyncIdle
    /\ adp = AdpIdle
    /\ rot = RotIdle
    /\ ns = <<>>
    /\ creators = {}

---------------------------------------------------------------------------
(* Submission: api.py trigger_airflow_dag *)

\* The Airflow REST call either creates the run or answers with an error,
\* in which case the handler raises before it records anything.
trigger_airflow_dag(accepted) ==
    /\ Fault(~accepted)
    /\ run = "none"
    /\ ~store.known
    /\ ~Exists(fs, Root)
    /\ LET f1 == WriteFile(ApiGetTransactionFolder(fs), <<"transaction.txt">>, Doc("text"))
       IN  IF accepted
           THEN /\ fs' = ApiSave(f1, "metadata.json", Metadata("triggered"), NoSub)
                /\ store' = [known |-> TRUE, has_ids |-> TRUE,
                             status |-> "triggered", result_path |-> "none"]
                /\ run' = "running"
                /\ conf' = ApiConf
                /\ lastPut' = [file |-> "metadata.json", sub |-> NoSub,
                               path |-> ApiSavePath("metadata.json", NoSub), by |-> "api"]
           ELSE /\ fs' = f1
                /\ UNCHANGED <<store, run, conf, lastPut>>
    /\ UNCHANGED <<resultFile, engine, fan, cb, xcom, task, tries, mig, migRuns, migPre, rd,
                   lastStatus, everCompleted, puts, queries, ns, creators>>

\* POST /api/transaction with wait=false and a body
Submit(accepted) ==
    /\ trigger_airflow_dag(accepted)
    /\ UNCHANGED apiVars

---------------------------------------------------------------------------
(* DAG tasks *)

DagPut(file_name, sub) ==
    [file |-> file_name, sub |-> sub, path |-> DagSavePath(file_name, sub), by |-> "dag"]

PipeUnchanged ==
    UNCHANGED <<resultFile, engine, apiVars, fan, cb, conf, store, mig, migRuns, migPre, rd, lastStatus,
                everCompleted, puts, queries, run, ns, creators>>

\* A task whose all_success rule can no longer be met.
MarkUpstreamFailed(t) ==
    /\ run = "running"
    /\ task[t] = "none"
    /\ TriggerRule(t) = "all_success"
    /\ \E u \in Upstream(t) : task[u] \in {"failed", "upstream_failed"}
    /\ task' = [task EXCEPT ![t] = "upstream_failed"]
    /\ UNCHANGED <<fs, tries, lastPut, faults, xcom>>
    /\ PipeUnchanged

\* A mapped task expanded over an empty list is skipped and pushes nothing.
SkipEmpty(t) ==
    /\ t \in {"process_organizations", "process_people", "process_discovered_people"}
    /\ Ready(t)
    /\ task' = [task EXCEPT ![t] = "skipped"]
    /\ UNCHANGED <<fs, tries, lastPut, faults, xcom>>
    /\ PipeUnchanged

\* An all_success task with a skipped upstream task is skipped as well.
MarkSkipped(t) ==
    /\ run = "running"
    /\ task[t] = "none"
    /\ TriggerRule(t) = "all_success"
    /\ \E u \in Upstream(t) : task[u] = "skipped"
    /\ \A u \in Upstream(t) : task[u] \notin {"failed", "upstream_failed"}
    /\ task' = [task EXCEPT ![t] = "skipped"]
    /\ UNCHANGED <<fs, tries, lastPut, faults, xcom>>
    /\ PipeUnchanged

\* get_transaction_data: raises when conf lacks the text or the id (every
\* attempt alike), else creates the folder structure and returns the info.
GetTransactionData ==
    /\ Ready("get_transaction_data")
    /\ IF conf.has_data /\ conf.has_id
       THEN /\ fs' = initialize_knowledge_base(fs)
            /\ task' = [task EXCEPT !["get_transaction_data"] = "success"]
            /\ xcom' = [xcom EXCEPT !["get_transaction_data"] =
                           [kind |-> "info", callback_url |-> conf.has_callback]]
       ELSE /\ task' = [task EXCEPT !["get_transaction_data"] = "failed"]
            /\ UNCHANGED <<fs, xcom>>
    /\ UNCHANGED <<tries, lastPut, faults>>
    /\ PipeUnchanged

\* extract_entities -> extract_entities_from_text; the reasoning call may
\* raise, and the task is retried Retries times (an outage that outlasts
\* the retries is one fault).
ExtractEntities(ok) ==
    /\ Ready("extract_entities")
    /\ Fault(~ok /\ tries = 0)
    /\ LET f1 == WriteFile(DagGetTransactionFolder(fs), <<"transaction.txt">>, Doc("text"))
       IN  IF ok
           THEN /\ fs' = DagSave(f1, "entities.json", Doc("entities"), NoSub)
                /\ lastPut' = DagPut("entities.json", NoSub)
                /\ task' = [task EXCEPT !["extract_entities"] = "success"]
                /\ xcom' = [xcom EXCEPT !["extract_entities"] = [kind |-> "entities"]]
                /\ UNCHANGED tries
           ELSE /\ fs' = f1
                /\ tries' = tries + 1
                /\ task' = [task EXCEPT !["extract_entities"] =
                               IF tries < Retries THEN "none" ELSE "failed"]
                /\ UNCHANGED <<lastPut, xcom>>
    /\ PipeUnchanged

\* get_entity_history -> retrieve_entity_history: a graph-store error is
\* swallowed and nothing is saved.
GetEntityHistory(ok) ==
    /\ Ready("get_entity_history")
    /\ Fault(~ok)
    /\ IF ok
       THEN /\ fs' = DagSave(fs, "entity_history.json", Doc("history_dag"), NoSub)
            /\ lastPut' = DagPut("entity_history.json", NoSub)
       ELSE UNCHANGED <<fs, lastPut>>
    /\ task' = [task EXCEPT !["get_entity_history"] = "success"]
    /\ xcom' = [xcom EXCEPT !["get_entity_history"] = [kind |-> "history", found |-> ok]]
    /\ UNCHANGED tries
    /\ PipeUnchanged

\* One entity task: the adapter saves its result under the given
\* knowledge-base subfolder, or fails and returns status=failed.
EntityTask(t, sub, file_name, ok) ==
    /\ Ready(t)
    /\ Fault(~ok)
    /\ IF ok
       THEN /\ fs' = DagSave(fs, file_name, Doc("sanctions"), sub)
            /\ lastPut' = DagPut(file_name, sub)
       ELSE UNCHANGED <<fs, lastPut>>
    /\ task' = [task EXCEPT ![t] = "success"]
    /\ xcom' = [xcom EXCEPT ![t] =
                   [kind |-> "results", sanctions |-> IF ok THEN "success" ELSE "failed"]]
    /\ UNCHANGED tries
    /\ PipeUnchanged

ProcessOrganizations(ok) ==
    EntityTask("process_organizations",
               <<"entity_data", "organization_results", "sanctions">>, "Acme.json", ok)

ProcessPeople(ok) ==
    EntityTask("process_people",
               <<"entity_data", "people_results", "sanctions">>, "Jane.json", ok)

ProcessDiscoveredPeople(ok) ==
    EntityTask("process_discovered_people",
               <<"entity_data", "people_results", "sanctions">>, "John.json", ok)

\* The document combine_results returns: entities and entity_history as
\* they were passed (None when never pushed), a result branch {} when its
\* results are missing.
AssessmentDocument ==
    [kind |-> "document",
     entities |-> xcom["extract_entities"],
     entity_history |-> xcom["get_entity_history"],
     organizations |-> IF xcom["process_organizations"] # XNone THEN "results" ELSE "empty",
     people |-> IF xcom["process_people"] # XNone THEN "results" ELSE "empty",
     discovered_people |->
         IF xcom["process_discovered_people"] # XNone THEN "results" ELSE "empty"]

\* combine_results (ALL_DONE): it subscripts transaction_info, which is None
\* unless get_transaction_data returned.
CombineResults ==
    /\ Ready("combine_results")
    /\ IF Resolves("combine_results") /\ xcom["get_transaction_data"] # XNone
       THEN /\ task' = [task EXCEPT !["combine_results"] = "success"]
            /\ xcom' = [xcom EXCEPT !["combine_results"] = AssessmentDocument]
       ELSE /\ task' = [task EXCEPT !["combine_results"] = "failed"]
            /\ UNCHANGED xcom
    /\ UNCHANGED <<fs, tries, lastPut, faults>>
    /\ PipeUnchanged

\* "fail_storage": the results folder cannot be written, so the save of
\* error.json in the except block raises as well.
AssessOutcomes == {"ok", "fail_before_raw", "fail_after_raw", "fail_storage"}

\* The result generate_risk_assessment builds in its except block; scores
\* are in tenths (risk_score 0.5, confidence_score 0.0).
DegradedAssessment ==
    [kind |-> "assessment", risk_score |-> 5, confidence_score |-> 0,
     reason |-> "error", status |-> "failed"]

\* A result parsed from the reasoning service's answer.
ModelAssessment ==
    [kind |-> "assessment", risk_score |-> 8, confidence_score |-> 9,
     reason |-> "model", status |-> "none"]

\* generate_risk_assessment on the file system.
generate_risk_assessment(f, outcome) ==
    CASE outcome = "ok" ->
           DagSave(DagSave(f, "raw_assessment_data.json", Doc("raw"), NoSub),
                   "risk_assessment.json", Doc("assessment"), NoSub)
      [] outcome = "fail_after_raw" ->
           DagSave(DagSave(f, "raw_assessment_data.json", Doc("raw"), NoSub),
                   "error.json", Doc("error"), NoSub)
      [] outcome = "fail_storage" -> f
      [] OTHER ->
           DagSave(f, "error.json", Doc("error"), NoSub)

\* assess_risk: an exception inside generate_risk_assessment is caught and
\* answered with the degraded result, unless the except block itself raises
\* (an outage of the storage that outlasts the retry fails the task).
AssessRisk(outcome) ==
    /\ Ready("assess_risk")
    /\ Fault(outcome # "ok")
    /\ fs' = generate_risk_assessment(fs, outcome)
    /\ IF outcome = "fail_storage"
       THEN /\ task' = [task EXCEPT !["assess_risk"] = "failed"]
            /\ UNCHANGED <<lastPut, xcom>>
       ELSE /\ task' = [task EXCEPT !["assess_risk"] = "success"]
            /\ lastPut' = DagPut(IF outcome = "ok" THEN "risk_assessment.json"
                                                   ELSE "error.json", NoSub)
            /\ xcom' = [xcom EXCEPT !["assess_risk"] =
                           IF outcome = "ok" THEN ModelAssessment ELSE DegradedAssessment]
    /\ UNCHANGED tries
    /\ PipeUnchanged

\* store_in_neo4j: store_transaction_results catches every error.
StoreInNeo4j ==
    /\ Ready("store_in_neo4j")
    /\ task' = [task EXCEPT !["store_in_neo4j"] = "success"]
    /\ xcom' = [xcom EXCEPT !["store_in_neo4j"] = [kind |-> "neo4j"]]
    /\ UNCHANGED <<fs, tries, lastPut, faults>>
    /\ PipeUnchanged

\* The scheduler closes the run once every task is terminal: the run takes
\* the state of its only leaf, send_callback.
FinishRun ==
    /\ run = "running"
    /\ \A t \in Tasks : task[t] \in Terminal
    /\ run' = IF task["send_callback"] = "success" THEN "success" ELSE "failed"
    /\ UNCHANGED <<faults, fs, resultFile, engine, apiVars, fan, cb, conf, xcom, store, task, tries, mig, migRuns, migPre,
                   rd, lastStatus, everCompleted, puts, lastPut, queries, ns, creators>>

---------------------------------------------------------------------------
(* Migration as it runs: organize_knowledge_base, or a direct call of      *)
(* migrate_transaction_to_knowledge_base on a legacy transaction           *)

\* The files at a legacy path the table of _migrate_files covers: a root
\* file of the table, or a file under organization_results/ or people_results/.
CoveredLegacyFiles(f) ==
    { q \in DOMAIN f.files :
        \E i \in DOMAIN path_mappings :
            Len(q) >= 1 /\ SubSeq(q, 1, 1) = Orig(i) }

\* The versioned path of a covered legacy path.
VersionedOf(q) ==
    LET i == CHOOSE j \in DOMAIN path_mappings : SubSeq(q, 1, 1) = Orig(j)
    IN  Rebase(q, Orig(i), New(i))

Snapshot(f) == [q \in CoveredLegacyFiles(f) |-> f.files[q]]

MigUnchanged ==
    UNCHANGED <<resultFile, engine, apiVars, fan, cb, conf, store, tries, rd, lastStatus, everCompleted,
                puts, lastPut, queries, run, ns, creators>>

OrganizeKnowledgeBase ==
    /\ Ready("organize_knowledge_base")
    /\ mig.pc = "idle"
    /\ mig' = [MigIdle EXCEPT !.pc = "begin", !.owner = "dag"]
    /\ migRuns' = migRuns + 1
    /\ migPre' = Snapshot(fs)
    /\ task' = [task EXCEPT !["organize_knowledge_base"] = "running"]
    /\ UNCHANGED <<fs, faults, xcom>>
    /\ MigUnchanged

OperatorMigrate ==
    /\ mig.pc = "idle"
    /\ migRuns < MaxMigrateRuns
    /\ mig' = [MigIdle EXCEPT !.pc = "begin", !.owner = "operator"]
    /\ migRuns' = migRuns + 1
    /\ migPre' = Snapshot(fs)
    /\ UNCHANGED <<fs, task, faults, xcom>>
    /\ MigUnchanged

MigrateBegin ==
    /\ mig.pc = "begin"
    /\ fs' = MigBegin(fs, mig).fs
    /\ mig' = MigBegin(fs, mig).mig
    /\ UNCHANGED <<task, migRuns, migPre, faults, xcom>>
    /\ MigUnchanged

MigrateCheck ==
    /\ mig.pc = "check"
    /\ fs' = MigCheck(fs, mig).fs
    /\ mig' = MigCheck(fs, mig).mig
    /\ UNCHANGED <<task, migRuns, migPre, faults, xcom>>
    /\ MigUnchanged

MigrateCopy(outcome) ==
    /\ mig.pc = "copy"
    /\ Fault(outcome # "ok")
    /\ fs' = MigCopy(fs, mig, outcome).fs
    /\ mig' = MigCopy(fs, mig, outcome).mig
    /\ UNCHANGED <<task, migRuns, migPre, xcom>>
    /\ MigUnchanged

MigrateRemove ==
    /\ mig.pc = "remove"
    /\ fs' = MigRemove(fs, mig).fs
    /\ mig' = MigRemove(fs, mig).mig
    /\ UNCHANGED <<task, migRuns, migPre, faults, xcom>>
    /\ MigUnchanged

\* The call returns; organize_knowledge_base succeeds whatever it returned.
MigrateReturn ==
    /\ mig.pc = "done"
    /\ mig' = MigIdle
    /\ task' = IF mig.owner = "dag"
               THEN [task EXCEPT !["organize_knowledge_base"] = "success"]
               ELSE task
    /\ xcom' = IF mig.owner = "dag"
               THEN [xcom EXCEPT !["organize_knowledge_base"] =
                        [kind |-> "kb", knowledge_base_organized |-> mig.result]]
               ELSE xcom
    /\ UNCHANGED <<fs, migRuns, migPre, faults>>
    /\ MigUnchanged

---------------------------------------------------------------------------
(* Callback: send_callback of the DAG and process_callback of the API *)

\* a handler that leaves the status of a registered transaction as it was
ProcessCallbackStoreKeep(st, status) ==
    IF st.known
    THEN st
    ELSE [known |-> TRUE, has_ids |-> TRUE, status |-> status, result_path |-> "none"]

\* process_callback on transaction_store[T].
ProcessCallbackStore(st, status) ==
    IF st.known
    THEN [st EXCEPT !.status = status, !.result_path = "none"]
    ELSE [known |-> TRUE, has_ids |-> TRUE, status |-> status, result_path |-> "none"]

\* send_callback gets past its first line: it subscripts transaction_info.
MaxCallbacks == 2

\* the status field of a CallbackRequest
CallbackStatuses == {"completed", "failed"}

\* POST /api/callback/{transaction_id}: match tells whether the body names the
\* transaction of the path, saved whether the save of metadata.json went
\* through.
ProcessCallback(match, status, saved) ==
    /\ cb.n < MaxCallbacks
    /\ ~match => saved
    /\ Fault(~saved)
    /\ IF ~match
       THEN /\ cb' = [n |-> cb.n + 1, match |-> FALSE, status |-> status, code |-> 400]
            /\ UNCHANGED <<store, fs, lastPut>>
       ELSE /\ store' = ProcessCallbackStore(store, status)
            /\ IF saved
               THEN /\ fs' = ApiSave(fs, "metadata.json", Metadata(status), NoSub)
                    /\ lastPut' = [file |-> "metadata.json", sub |-> NoSub,
                                   path |-> ApiSavePath("metadata.json", NoSub),
                                   by |-> "api"]
               ELSE UNCHANGED <<fs, lastPut>>
            /\ cb' = [n |-> cb.n + 1, match |-> TRUE, status |-> status,
                      code |-> IF saved THEN 200 ELSE 500]
    /\ UNCHANGED <<resultFile, engine, apiVars, fan, conf, xcom, task, tries, mig, migRuns, migPre,
                   rd, lastStatus, everCompleted, puts, queries, run, ns, creators>>

CallbackRuns == Resolves("send_callback") /\ xcom["get_transaction_data"] # XNone

\* send_callback has a callback_url to post to.
CallbackSends == CallbackRuns /\ xcom["get_transaction_data"].callback_url

\* send_callback (ALL_DONE): without a callback_url it returns at once; else
\* it posts status "completed" (the path and the body carry the same
\* transaction id) and a failed POST is logged.
SendCallback(delivered) ==
    /\ Ready("send_callback")
    /\ ~CallbackSends => delivered
    /\ Fault(~delivered)
    /\ task' = [task EXCEPT !["send_callback"] =
                   IF CallbackRuns THEN "success" ELSE "failed"]
    /\ xcom' = IF CallbackRuns
               THEN [xcom EXCEPT !["send_callback"] =
                        [kind |-> "callback", callback_sent |-> CallbackSends /\ delivered]]
               ELSE xcom
    /\ IF CallbackSends /\ delivered
       THEN /\ store' = ProcessCallbackStore(store, "completed")
            /\ fs' = ApiSave(fs, "metadata.json", Metadata("completed"), NoSub)
            /\ lastPut' = [file |-> "metadata.json", sub |-> NoSub,
                           path |-> ApiSavePath("metadata.json", NoSub), by |-> "api"]
            /\ cb' = [n |-> cb.n + 1, match |-> TRUE, status |-> "completed",
                      code |-> 200]
       ELSE UNCHANGED <<store, fs, lastPut, cb>>
    /\ UNCHANGED <<resultFile, engine, apiVars, fan, conf, tries, mig, migRuns, migPre, rd,
                   lastStatus, everCompleted, puts, queries, run, ns, creators>>

---------------------------------------------------------------------------
(* Status Resolver: api.py get_transaction_status *)

\* What check_dag_status can return as "state": the run's state on a 200,
\* "unknown" on any other response, "error" when the request raises.
EngineAnswers == {"unknown", "error"} \cup (IF run = "none" THEN {} ELSE {run})

\* The answer the engine gives when the request goes through.
EngineTruth == IF run = "none" THEN "unknown" ELSE run

\* A parseable document exists at the new or the old path of a logical path.
DocExists(f, file_name, sub) ==
    \/ (LoadNewPath(file_name, sub) # NoPath /\ ReadJson(f, LoadNewPath(file_name, sub)) # None)
    \/ ReadJson(f, LoadOldPath(file_name, sub)) # None

\* Line 378: the folder test, then the load of line 380 starts.
StatusStart ==
    /\ rd.pc = "idle"
    /\ queries < MaxQueries
    /\ queries' = queries + 1
    /\ rd' = IF Exists(fs, Root)
             THEN [LoadStart("risk_assessment.json", NoSub) EXCEPT !.pc = "folder"]
                     @@ [purpose |-> "status", folder |-> TRUE,
                         existed |-> DocExists(fs, "risk_assessment.json", NoSub)]
             ELSE [LoadStart("risk_assessment.json", NoSub) EXCEPT !.pc = "done"]
                     @@ [purpose |-> "status", folder |-> FALSE, existed |-> FALSE]
    /\ UNCHANGED <<faults, fs, resultFile, engine, apiVars, fan, cb, conf, xcom, store, task, tries, mig, migRuns, migPre,
                   lastStatus, everCompleted, puts, lastPut, run, ns, creators>>

\* A direct load_transaction_data call for a logical path.
GetPaths ==
    { <<"entities.json", NoSub>>,
      <<"entity_history.json", NoSub>>,
      <<"Acme.json", <<"organization_results", "sanctions">> >> }

ApiGetStart(p) ==
    /\ rd.pc = "idle"
    /\ queries < MaxQueries
    /\ queries' = queries + 1
    /\ rd' = LoadStart(p[1], p[2])
               @@ [purpose |-> "get", folder |-> Exists(fs, Root),
                   existed |-> DocExists(fs, p[1], p[2])]
    /\ UNCHANGED <<faults, fs, resultFile, engine, apiVars, fan, cb, conf, xcom, store, task, tries, mig, migRuns, migPre,
                   lastStatus, everCompleted, puts, lastPut, run, ns, creators>>

\* One file-system call of the running load_transaction_data.
ReaderStep ==
    /\ rd.pc \notin {"idle", "done"}
    /\ rd' = LoadStep(fs, [pc |-> rd.pc, file |-> rd.file, sub |-> rd.sub,
                           result |-> rd.result])
               @@ [purpose |-> rd.purpose, folder |-> rd.folder, existed |-> rd.existed]
    /\ UNCHANGED <<faults, fs, resultFile, engine, apiVars, fan, cb, conf, xcom, store, task, tries, mig, migRuns, migPre,
                   lastStatus, everCompleted, puts, lastPut, queries, run, ns, creators>>

ApiGetReturn ==
    /\ rd.pc = "done"
    /\ rd.purpose = "get"
    /\ rd' = RdIdle
    /\ UNCHANGED <<faults, fs, resultFile, engine, apiVars, fan, cb, conf, xcom, store, task, tries, mig, migRuns, migPre,
                   lastStatus, everCompleted, puts, lastPut, queries, run, ns, creators>>

(* Lines 381-538, after the load of line 380 returned ra.  in_folder is the *)
(* outcome of line 378, e the state check_dag_status returns, rf whether    *)
(* result_<T>.json exists.  The answer is [status, store, fs].              *)
StatusAnswer(f, st, in_folder, ra, e, rf) ==
    IF in_folder /\ ra # None
    THEN [status |-> "completed", store |-> st, fs |-> f]
    ELSE IF in_folder /\ ApiLoad(f, "metadata.json", NoSub) # None
    THEN [status |-> e, store |-> st, fs |-> f]
    ELSE IF st.known /\ st.status = "completed" /\ st.result_path = "result_file" /\ rf
    THEN [status |-> "completed", store |-> st, fs |-> f]
    ELSE IF st.known
    THEN IF st.has_ids /\ e = "success" /\ ApiLoad(f, "risk_assessment.json", NoSub) # None
         THEN [status |-> "completed", store |-> st, fs |-> f]
         ELSE IF st.has_ids /\ e = "success" /\ rf
         THEN [status |-> "completed",
               store |-> [st EXCEPT !.status = "completed", !.result_path = "result_file"],
               fs |-> f]
         ELSE [status |-> st.status, store |-> st, fs |-> f]
    ELSE IF rf
    THEN [status |-> "completed",
          store |-> [known |-> TRUE, has_ids |-> FALSE, status |-> "completed",
                     result_path |-> "result_file"],
          fs |-> f]
    ELSE [status |-> IF e = "running" THEN "processing" ELSE e,
          store |-> [known |-> TRUE, has_ids |-> TRUE, status |-> e, result_path |-> "none"],
          fs |-> ApiSave(f, "metadata.json", Metadata(e), NoSub)]

StatusFinish(e) ==
    /\ rd.pc = "done"
    /\ rd.purpose = "status"
    /\ e \in EngineAnswers
    /\ Fault(e # EngineTruth)
    /\ LET a == StatusAnswer(fs, store, rd.folder, rd.result, e, resultFile)
       IN  /\ lastStatus' = a.status
           /\ everCompleted' = (everCompleted \/ a.status = "completed")
           /\ store' = a.store
           /\ fs' = a.fs
           /\ lastPut' = IF a.fs # fs
                         THEN [file |-> "metadata.json", sub |-> NoSub,
                               path |-> ApiSavePath("metadata.json", NoSub), by |-> "api"]
                         ELSE lastPut
    /\ rd' = RdIdle
    /\ UNCHANGED <<resultFile, engine, apiVars, fan, cb, conf, xcom, task, tries, mig, migRuns, migPre, puts,
                   queries, run, ns, creators>>

---------------------------------------------------------------------------
(* Entity history endpoint: api.py get_transaction_entity_history *)

\* 404 without entities; a stored history is returned as it is; otherwise
\* the history is fetched from the graph store (which may raise) and saved.
ApiEntityHistory(ok) ==
    /\ puts < MaxApiPuts
    /\ Fault(~ok)
    /\ ApiLoad(fs, "entities.json", NoSub) # None
    /\ ApiLoad(fs, "entity_history.json", NoSub) = None
    /\ puts' = puts + 1
    /\ IF ok
       THEN /\ fs' = ApiSave(fs, "entity_history.json", Doc("history_api"), NoSub)
            /\ lastPut' = [file |-> "entity_history.json", sub |-> NoSub,
                           path |-> ApiSavePath("entity_history.json", NoSub), by |-> "api"]
       ELSE UNCHANGED <<fs, lastPut>>
    /\ UNCHANGED <<resultFile, engine, apiVars, fan, cb, conf, xcom, store, task, tries, mig, migRuns, migPre, rd,
                   lastStatus, everCompleted, queries, run, ns, creators>>

---------------------------------------------------------------------------
(* Concurrent first callers of the namespace skeleton                      *)
(* (create_transaction_folder_structure, one file-system call per step)    *)

Callers == 1..MaxCallers

NsIdle == [pc |-> "idle", idx |-> 0]

NsUnchanged ==
    UNCHANGED <<faults, resultFile, engine, apiVars, fan, cb, conf, xcom, store, task, tries, mig, migRuns, migPre, rd,
                lastStatus, everCompleted, puts, lastPut, queries, run>>

\* A caller enters: the API through get_transaction_folder, which tests the
\* folder itself first, the DAG through initialize_knowledge_base.
NsCall(c, kind) ==
    /\ ns[c].pc = "idle"
    /\ ns' = [ns EXCEPT ![c] = [pc |-> IF kind = "api" THEN "pre_test" ELSE "test_root",
                                idx |-> 0]]
    /\ UNCHANGED <<fs, creators>>
    /\ NsUnchanged

\* api/utils/transaction_folder.py line 25.
NsPreTest(c) ==
    /\ ns[c].pc = "pre_test"
    /\ ns' = [ns EXCEPT ![c].pc = IF Exists(fs, Root) THEN "done" ELSE "test_root"]
    /\ UNCHANGED <<fs, creators>>
    /\ NsUnchanged

\* knowledge_base_utils.py line 67.
NsTestRoot(c) ==
    /\ ns[c].pc = "test_root"
    /\ IF Exists(fs, Root)
       THEN /\ ns' = [ns EXCEPT ![c] = [pc |-> "hier", idx |-> 1]]
            /\ UNCHANGED creators
       ELSE /\ ns' = [ns EXCEPT ![c].pc = "mk_root"]
            /\ creators' = creators \cup {c}
    /\ UNCHANGED fs
    /\ NsUnchanged

\* Line 69: os.makedirs(transaction_folder, exist_ok=True).
NsMakeRoot(c) ==
    /\ ns[c].pc = "mk_root"
    /\ fs' = Makedirs(fs, Root)
    /\ ns' = [ns EXCEPT ![c].pc = "root_meta"]
    /\ UNCHANGED creators
    /\ NsUnchanged

\* Line 72: _create_folder_metadata.
NsRootMetadata(c) ==
    /\ ns[c].pc = "root_meta"
    /\ fs' = _create_folder_metadata(fs)
    /\ ns' = [ns EXCEPT ![c] = [pc |-> "hier", idx |-> 1]]
    /\ UNCHANGED creators
    /\ NsUnchanged

\* Line 97: the existence test of one folder of the hierarchy.
NsTestFolder(c) ==
    /\ ns[c].pc = "hier"
    /\ ns' = [ns EXCEPT ![c] =
                IF ns[c].idx > Len(FOLDER_STRUCTURE) THEN [pc |-> "done", idx |-> 0]
                ELSE IF Exists(fs, FOLDER_STRUCTURE[ns[c].idx])
                THEN [pc |-> "hier", idx |-> ns[c].idx + 1]
                ELSE [pc |-> "mk_dir", idx |-> ns[c].idx]]
    /\ UNCHANGED <<fs, creators>>
    /\ NsUnchanged

\* Line 98: os.makedirs(folder_path, exist_ok=True).
NsMakeFolder(c) ==
    /\ ns[c].pc = "mk_dir"
    /\ fs' = Makedirs(fs, FOLDER_STRUCTURE[ns[c].idx])
    /\ ns' = [ns EXCEPT ![c].pc = "dir_meta"]
    /\ UNCHANGED creators
    /\ NsUnchanged

\* Lines 101-113: the folder's .metadata.json.
NsFolderMetadata(c) ==
    /\ ns[c].pc = "dir_meta"
    /\ fs' = WriteFile(fs, FOLDER_STRUCTURE[ns[c].idx] \o <<".metadata.json">>, FolderMeta)
    /\ ns' = [ns EXCEPT ![c] = [pc |-> "hier", idx |-> ns[c].idx + 1]]
    /\ UNCHANGED creators
    /\ NsUnchanged

\* The caller has its folder and writes its first file into it:
\* transaction.txt, by trigger_airflow_dag or by extract_entities_from_text.
NsWriteFact(c) ==
    /\ ns[c].pc = "done"
    /\ fs' = WriteFile(fs, <<"transaction.txt">>, Doc("text"))
    /\ ns' = [ns EXCEPT ![c].pc = "written"]
    /\ UNCHANGED creators
    /\ NsUnchanged

\* ---------------------------------------------------------------------------
\* The mapped entity tasks: process_organization, extract_discovered_people,
\* process_person and process_discovered_person with their adapters.

PersonNames == {"Ann", "ann"}

\* str.lower() on the names in use
Lower(n) == IF n = "Ann" THEN "ann" ELSE n

\* f"{name.replace(' ', '_')}.json"
JsonName(n) == n \o ".json"

OrgAdapters == <<"opencorporates", "sanctions", "wikidata", "news">>

PersonAdapters == <<"pep", "sanctions", "news">>

AdaptersOf(kind) == IF kind = "organization" THEN OrgAdapters ELSE PersonAdapters

AdapterNames(kind) == { AdaptersOf(kind)[i] : i \in DOMAIN AdaptersOf(kind) }

\* what one adapter call can come to
AdapterOutcomes(a) ==
    IF a = "opencorporates" THEN {"success", "no_results", "failed"}
                            ELSE {"success", "failed"}

OutcomeChoices(kind) ==
    { o \in [AdapterNames(kind) -> {"success", "no_results", "failed"}] :
        \A a \in AdapterNames(kind) : o[a] \in AdapterOutcomes(a) }

\* the dictionary an adapter returns
AdapterReturn(outcome) == [status |-> outcome, has_reason |-> outcome # "success"]

AdapterSubfolder(kind, a) ==
    <<"entity_data",
      IF kind = "organization" THEN "organization_results" ELSE "people_results",
      a>>

\* a successful adapter call saves its result in the transaction folder
AdapterSave(f, kind, name, a, outcome) ==
    IF outcome = "success"
    THEN DagSave(f, JsonName(name), Doc(a), AdapterSubfolder(kind, a))
    ELSE f

AdapterPut(put, kind, name, a, outcome) ==
    IF outcome = "success"
    THEN DagPut(JsonName(name), AdapterSubfolder(kind, a))
    ELSE put

\* an entity task that re-raises what its adapter reports as failed
RECURSIVE CallAdaptersRaising(_, _, _, _, _)
CallAdaptersRaising(acc, kind, name, adapters, out) ==
    IF adapters = <<>> \/ acc.state = "failed"
    THEN acc
    ELSE LET a == Head(adapters)
         IN  CallAdaptersRaising(
                 [fs      |-> AdapterSave(acc.fs, kind, name, a, out[a]),
                  put     |-> AdapterPut(acc.put, kind, name, a, out[a]),
                  state   |-> IF out[a] = "failed" THEN "failed" ELSE "success",
                  results |-> IF out[a] = "failed" THEN <<>>
                              ELSE (a :> AdapterReturn(out[a])) @@ acc.results],
                 kind, name, Tail(adapters), out)

\* the adapter calls of one entity task, in the order of the results literal
RECURSIVE CallAdapters(_, _, _, _, _)
CallAdapters(acc, kind, name, adapters, out) ==
    IF adapters = <<>>
    THEN acc
    ELSE LET a == Head(adapters)
         IN  CallAdapters(
                 [fs      |-> AdapterSave(acc.fs, kind, name, a, out[a]),
                  put     |-> AdapterPut(acc.put, kind, name, a, out[a]),
                  state   |-> "success",
                  results |-> (a :> AdapterReturn(out[a])) @@ acc.results],
                 kind, name, Tail(adapters), out)

EntityReturn(f, kind, name, out) ==
    CallAdapters([fs |-> f, put |-> lastPut, state |-> "success", results |-> <<>>],
                 kind, name, AdaptersOf(kind), out)

MaxAssociated == 2

\* associated_people of one query_wikidata answer, by name
AssociatedChoices ==
    UNION { [1..k -> PersonNames] : k \in 0..MaxAssociated }

\* the order in which the mapped organization results are listed
OrgOrder == <<"Acme">>

\* a deduplication that compares the names as they are written
RECURSIVE DedupByExact(_, _, _)
DedupByExact(people, seen_names, discovered_people) ==
    IF people = <<>>
    THEN discovered_people
    ELSE LET name == Head(people)
         IN  IF name # "" /\ name \notin seen_names
             THEN DedupByExact(Tail(people), seen_names \cup {name},
                               Append(discovered_people, Head(people)))
             ELSE DedupByExact(Tail(people), seen_names, discovered_people)

\* the loop of extract_discovered_people: "if name and name not in seen_names"
RECURSIVE DedupByLower(_, _, _)
DedupByLower(people, seen_names, discovered_people) ==
    IF people = <<>>
    THEN discovered_people
    ELSE LET name == Lower(Head(people))
         IN  IF name # "" /\ name \notin seen_names
             THEN DedupByLower(Tail(people), seen_names \cup {name},
                               Append(discovered_people, Head(people)))
             ELSE DedupByLower(Tail(people), seen_names, discovered_people)

\* the discovered_people of the organization results, one list after another
RECURSIVE AllDiscovered(_)
AllDiscovered(org_results_list) ==
    IF org_results_list = <<>>
    THEN <<>>
    ELSE Head(org_results_list) \o AllDiscovered(Tail(org_results_list))

extract_discovered_people(org_results_list) ==
    DedupByLower(AllDiscovered(org_results_list), {}, <<>>)

SeqRange(q) == { q[i] : i \in DOMAIN q }

OriginalChoices == {{}, {"Ann"}}

FanUnchanged ==
    UNCHANGED <<faults, resultFile, engine, apiVars, cb, conf, xcom, store, task, tries, mig,
                migRuns, migPre, rd, lastStatus, everCompleted, puts, queries, run, ns,
                creators>>

LastOf(kind, name, out, r) ==
    [kind |-> kind, name |-> name, out |-> out, state |-> r.state,
     results |-> r.results]

ProcessOrganization(o, out, associated) ==
    /\ ~fan.org[o].done
    /\ out["wikidata"] # "success" => associated = <<>>
    /\ LET r == EntityReturn(fs, "organization", o, out)
       IN  /\ fs' = r.fs
           /\ lastPut' = r.put
           /\ fan' = [fan EXCEPT !.org[o] = [done |-> TRUE,
                                             discovered_people |-> associated],
                                 !.last = LastOf("organization", o, out, r)]
    /\ FanUnchanged

ExtractDiscoveredPeople ==
    /\ ~fan.discovered.done
    /\ \A o \in Organizations : fan.org[o].done
    /\ fan' = [fan EXCEPT !.discovered =
                  [done |-> TRUE,
                   list |-> extract_discovered_people(
                               [i \in DOMAIN OrgOrder |->
                                   fan.org[OrgOrder[i]].discovered_people])]]
    /\ UNCHANGED <<fs, lastPut>>
    /\ FanUnchanged

ProcessPerson(p, out) ==
    /\ p \in fan.people \ fan.persons
    /\ LET r == EntityReturn(fs, "person", p, out)
       IN  /\ fs' = r.fs
           /\ lastPut' = r.put
           /\ fan' = [fan EXCEPT !.persons = @ \cup {p},
                                 !.last = LastOf("person", p, out, r)]
    /\ FanUnchanged

\* a discovered-person task whose result is expanded for further people
ProcessDiscoveredPersonExpanding(p, out) ==
    /\ fan.discovered.done
    /\ p \in SeqRange(fan.discovered.list) \ fan.processed
    /\ \E r \in {EntityReturn(fs, "person", p, out)} :
          /\ fs' = r.fs
          /\ lastPut' = r.put
          /\ \E q \in PersonNames :
                fan' = [fan EXCEPT !.processed = @ \cup {p},
                                   !.discovered.list =
                                       IF q \in SeqRange(@) THEN @ ELSE Append(@, q),
                                   !.last = LastOf("discovered_person", p, out, r)]
    /\ FanUnchanged

ProcessDiscoveredPerson(p, out) ==
    /\ fan.discovered.done
    /\ p \in SeqRange(fan.discovered.list) \ fan.processed
    /\ LET r == EntityReturn(fs, "person", p, out)
       IN  /\ fs' = r.fs
           /\ lastPut' = r.put
           /\ fan' = [fan EXCEPT !.processed = @ \cup {p},
                                 !.last = LastOf("discovered_person", p, out, r)]
    /\ FanUnchanged

\* the paths the adapters of one entity task save to
WrittenPaths(kind, name, out) ==
    { DagSavePath(JsonName(name),
                  AdapterSubfolder(IF kind = "organization" THEN kind ELSE "person", a)) :
        a \in { b \in DOMAIN out : out[b] = "success" } }

\* the three keys the run derives from an entity name: seen_names of
\* extract_discovered_people, the file an adapter saves, and the key of the
\* result maps of combine_results (the name as it is)
DedupKey(n) == Lower(n)

PathKey(n) == JsonName(n)

JoinKey(n) == n

\* every person name the run has met
NamesOfRun ==
    fan.people \cup UNION { SeqRange(fan.org[o].discovered_people) : o \in Organizations }

\* ---------------------------------------------------------------------------
\* The two sources of the assessment data: risk_assessment.py
\* generate_risk_assessment

\* the folder generate_risk_assessment lists for one provider
RereadSubfolder(kind, a) ==
    <<IF kind = "organization" THEN "organization_results" ELSE "people_results", a>>

\* filename.replace('.json', '').replace('_', ' ') on the file names in use
NameOfJson(file_name) ==
    CHOOSE n \in Organizations \cup PersonNames : JsonName(n) = file_name

\* the *.json files of one provider folder
RereadFiles(f, kind, a) ==
    { JsonName(n) : n \in { m \in Organizations \cup PersonNames :
                              IsFile(f, RereadSubfolder(kind, a) \o <<JsonName(m)>>) } }

\* providers per entity name, as read back from the transaction folder
RereadResults(f, kind) ==
    LET names == { NameOfJson(file) :
                     file \in UNION { RereadFiles(f, kind, a) : a \in AdapterNames(kind) } }
    IN  [n \in names |->
            { a \in AdapterNames(kind) : JsonName(n) \in RereadFiles(f, kind, a) }]

\* providers per entity name, as combine_results passes them: one entry per
\* entity task that returned, with every key of its results literal
FlowResults(kind) ==
    [n \in IF kind = "organization" THEN { o \in Organizations : fan.org[o].done }
                                    ELSE fan.persons
       |-> AdapterNames(kind)]

\* ---------------------------------------------------------------------------
\* Bulk submission: api.py bulk_upload_transactions

\* everything that belongs to the transaction T and its run
tVars == <<faults, fs, resultFile, store, task, tries, mig, migRuns, migPre, rd,
           lastStatus, everCompleted, puts, lastPut, queries, run, conf, xcom,
           engine, fan, cb, ns, creators>>

MaxBlocks == 3

\* the pieces between two '---' separators of the body (rows of a csv body)
BlockTexts == {"", " ", "pay"}

\* str.strip() on the pieces in use
Strip(t) == IF t = " " THEN "" ELSE t

BodyChoices == UNION { [1..n -> BlockTexts] : n \in 1..MaxBlocks }

\* a txt body parsed without dropping its empty pieces
RECURSIVE TxtTransactionsKeepEmpty(_)
TxtTransactionsKeepEmpty(blocks) ==
    IF blocks = <<>>
    THEN <<>>
    ELSE <<Strip(Head(blocks))>> \o TxtTransactionsKeepEmpty(Tail(blocks))

\* [t.strip() for t in text_data.split('---') if t.strip()]
RECURSIVE TxtTransactions(_)
TxtTransactions(blocks) ==
    IF blocks = <<>>
    THEN <<>>
    ELSE (IF Strip(Head(blocks)) # "" THEN <<Strip(Head(blocks))>> ELSE <<>>)
            \o TxtTransactions(Tail(blocks))

\* one transaction text per csv row, built from the row's non-empty values
CsvTransactions(blocks) == [k \in DOMAIN blocks |-> IF blocks[k] = "" THEN "" ELSE blocks[k]]

\* the body as one string is empty
EmptyBody(blocks) == blocks = <<"">>

BulkFormats == {"txt", "csv", "xml"}

\* what handling one item can come to: the trigger fails; the run is
\* triggered and not awaited; or the poll loop ends with the assessment, with
\* a failed run, or at its deadline, the two "late" outcomes being a poll
\* answer that arrives when the deadline has already passed
BulkOutcomes(wait) ==
    IF wait
    THEN {"trigger_error", "completed", "run_failed", "timeout", "completed_late",
          "run_failed_late"}
    ELSE {"trigger_error", "triggered"}

BulkEntry(index, status) == [index |-> index, status |-> status]

\* a loop body that lets the failure of an item end the request
BulkStepAborting(b, outcome) ==
    IF outcome \in {"trigger_error", "run_failed", "timeout", "run_failed_late"}
    THEN [b EXCEPT !.pc = "done", !.outs = Append(@, outcome),
                   !.response = [code |-> 500]]
    ELSE [b EXCEPT !.i = @ + 1, !.outs = Append(@, outcome),
                   !.triggered = @ \cup {b.i},
                   !.results = Append(@, BulkEntry(b.i, "completed"))]

\* the body of the for loop for item b.i (lines 919-988)
BulkStep(b, outcome) ==
    [b EXCEPT
       !.i = @ + 1,
       !.outs = Append(@, outcome),
       !.triggered = IF outcome = "trigger_error" THEN @ ELSE @ \cup {b.i},
       !.results =
           IF outcome = "triggered" THEN Append(@, BulkEntry(b.i, "processing"))
           ELSE IF outcome \in {"completed", "completed_late"}
           THEN Append(@, BulkEntry(b.i, "completed"))
           ELSE @,
       !.failed =
           IF outcome \in {"trigger_error", "run_failed"}
           THEN Append(@, BulkEntry(b.i, "failed"))
           ELSE IF outcome \in {"timeout", "completed_late"}
           THEN Append(@, BulkEntry(b.i, "timeout"))
           ELSE IF outcome = "run_failed_late"
           THEN Append(@, BulkEntry(b.i, "failed")) \o <<BulkEntry(b.i, "timeout")>>
           ELSE @]

\* lines 865-913: the body is decoded and split into transactions
BulkStart(format, wait, blocks) ==
    /\ bulk.pc = "idle"
    /\ bulk' =
         IF EmptyBody(blocks) \/ format \notin {"txt", "csv"}
         THEN [BulkIdle EXCEPT !.pc = "done", !.format = format, !.wait = wait,
                               !.blocks = blocks, !.response = [code |-> 400]]
         ELSE LET transactions == IF format = "txt" THEN TxtTransactions(blocks)
                                                    ELSE CsvTransactions(blocks)
              IN  IF transactions = <<>>
                  THEN [BulkIdle EXCEPT !.pc = "done", !.format = format,
                                        !.wait = wait, !.blocks = blocks,
                                        !.response = [code |-> 400]]
                  ELSE [BulkIdle EXCEPT !.pc = "loop", !.format = format,
                                        !.wait = wait, !.blocks = blocks,
                                        !.transactions = transactions]
    /\ UNCHANGED <<tVars, dash, sync, libVars>>

BulkItem(outcome) ==
    /\ bulk.pc = "loop"
    /\ bulk.i < Len(bulk.transactions)
    /\ outcome \in BulkOutcomes(bulk.wait)
    /\ bulk' = BulkStep(bulk, outcome)
    /\ UNCHANGED <<tVars, dash, sync, libVars>>

\* lines 990-997: the summary
BulkReturn ==
    /\ bulk.pc = "loop"
    /\ bulk.i = Len(bulk.transactions)
    /\ bulk' = [bulk EXCEPT !.pc = "done",
                            !.response = [code |-> 200,
                                          total |-> Len(bulk.transactions),
                                          processed |-> Len(bulk.results),
                                          failed |-> Len(bulk.failed)]]
    /\ UNCHANGED <<tVars, dash, sync, libVars>>

\* ---------------------------------------------------------------------------
\* Dashboard: api.py get_dashboard_stats.  Risk scores are in tenths.

MaxResults == 3

ScoreValues == {0, 3, 4, 6, 7, 10}

\* a stored risk assessment: with a numeric risk_score, or without the key
ResultChoices ==
    { [has_score |-> TRUE, risk_score |-> v] : v \in ScoreValues }
        \cup { [has_score |-> FALSE, risk_score |-> 0] }

\* r.get("risk_score", 0)
ScoreOf(r) == IF r.has_score THEN r.risk_score ELSE 0

HighRisk(r) == ScoreOf(r) >= 7

\* a medium bucket that takes the upper threshold in
MediumRiskInclusive(r) == 4 <= ScoreOf(r) /\ ScoreOf(r) <= 7

MediumRisk(r) == 4 <= ScoreOf(r) /\ ScoreOf(r) < 7

LowRisk(r) == ScoreOf(r) < 4

\* sum(1 for r in all_results if ...), by bucket
RECURSIVE CountRisk(_, _)
CountRisk(all_results, bucket) ==
    IF all_results = <<>>
    THEN 0
    ELSE (IF \/ bucket = "high" /\ HighRisk(Head(all_results))
             \/ bucket = "medium" /\ MediumRisk(Head(all_results))
             \/ bucket = "low" /\ LowRisk(Head(all_results))
          THEN 1 ELSE 0) + CountRisk(Tail(all_results), bucket)

\* a run or a legacy result file adds a risk assessment to RESULTS_FOLDER
AddResult(r) ==
    /\ Len(dash.all_results) < MaxResults
    /\ dash' = [dash EXCEPT !.all_results = Append(@, r)]
    /\ UNCHANGED <<tVars, bulk, sync, libVars>>

GetDashboardStats ==
    /\ dash' = [dash EXCEPT !.stats =
                   [asked |-> TRUE,
                    totalTransactions      |-> Len(dash.all_results),
                    highRiskTransactions   |-> CountRisk(dash.all_results, "high"),
                    mediumRiskTransactions |-> CountRisk(dash.all_results, "medium"),
                    lowRiskTransactions    |-> CountRisk(dash.all_results, "low")]]
    /\ UNCHANGED <<tVars, bulk, sync, libVars>>

\* get_dashboard_stats on a results folder: lines 552-598 collect the
\* results, the rest counts them.

\* a transaction folder (with its risk assessment or not) and the legacy
\* result files of each transaction
ResultsFolders ==
    { l \in [TxIds -> [folder : BOOLEAN, assessed : BOOLEAN, legacy : SUBSET LegacyKinds]] :
        \A id \in TxIds : l[id].assessed => l[id].folder }

TxOrder == <<"T1", "T2">>

LegacyOrder ==
    << <<"T1", "plain">>, <<"T1", "aml_run">>, <<"T2", "plain">>, <<"T2", "aml_run">> >>

\* the id the loop over ["result_", "result_aml_run_"] takes from a file
\* name: the first prefix matches every result file, so only "result_" is
\* ever removed
FileTxnId(id, kind) == IF kind = "plain" THEN id ELSE "aml_run_" \o id

\* list_transaction_results
TransactionFolders(l) == { id \in TxIds : l[id].folder }

ResultOf(id) == [has_score |-> TRUE, risk_score |-> 7, transaction_id |-> id]

FolderEntries(l) == SelectSeq(TxOrder, LAMBDA id : l[id].assessed)

LegacyEntries(l) ==
    SelectSeq(LegacyOrder,
              LAMBDA e : /\ e[2] \in l[e[1]].legacy
                         /\ FileTxnId(e[1], e[2]) \notin TransactionFolders(l))

CollectResults(l) ==
    [i \in DOMAIN FolderEntries(l) |-> ResultOf(FolderEntries(l)[i])]
        \o [i \in DOMAIN LegacyEntries(l) |-> ResultOf(LegacyEntries(l)[i][1])]

DashboardOnFolder ==
    /\ ~dash.stats.asked
    /\ dash.all_results = <<>>
    /\ dash' = [dash EXCEPT
                   !.all_results = CollectResults(dash.results_folder),
                   !.stats =
                       [asked |-> TRUE,
                        totalTransactions |-> Len(CollectResults(dash.results_folder)),
                        highRiskTransactions |->
                            CountRisk(CollectResults(dash.results_folder), "high"),
                        mediumRiskTransactions |->
                            CountRisk(CollectResults(dash.results_folder), "medium"),
                        lowRiskTransactions |->
                            CountRisk(CollectResults(dash.results_folder), "low")]]
    /\ UNCHANGED <<tVars, bulk, sync, libVars>>

\* ---------------------------------------------------------------------------
\* Where an adapter saves: data_enrichment.py _get_transaction_id_from_context

MaxAdapterCalls == 2

\* An adapter is called by an entity task, which passes its task context
\* (dag_run, task_instance) besides transaction_id, or directly with the
\* keyword transaction_id alone.
CallForms == {"task", "direct"}

\* **context of the call for the transaction T
ContextOf(form) ==
    [transaction_id |-> "T",
     dag_run        |-> IF form = "task" THEN "T" ELSE "absent",
     task_instance  |-> form = "task"]

\* lines 36-46: obj carries no transaction_id; the id is read from
\* dag_run.conf and from nowhere else
get_transaction_id_from_context(context) ==
    IF context.dag_run # "absent" THEN context.dag_run ELSE "unknown_transaction"

\* check_adverse_news takes the folder from the task id
SavedSubfolder(kind, a, context) ==
    IF a = "news"
    THEN AdapterSubfolder(IF context.task_instance THEN kind ELSE "organization", a)
    ELSE AdapterSubfolder(kind, a)

\* one successful adapter call for T
AdapterCall(kind, name, a, form) ==
    /\ adp.n < MaxAdapterCalls
    /\ a \in AdapterNames(kind)
    /\ name \in (IF kind = "organization" THEN Organizations ELSE PersonNames)
    /\ adp' = [n       |-> adp.n + 1,
               written |-> adp.written \cup
                   {[namespace |-> get_transaction_id_from_context(ContextOf(form)),
                     path      |-> DagSavePath(JsonName(name),
                                               SavedSubfolder(kind, a, ContextOf(form))),
                     form      |-> form]}]
    /\ UNCHANGED <<tVars, bulk, dash, sync, rot>>

\* ---------------------------------------------------------------------------
\* Key rotation: settings.py GeminiKeyRotator, gemini_util.py create_genai_model

MaxModelCalls == 3

\* create_genai_model(max_retries=3)
max_retries == 3

\* self.keys, more than one
GeminiKeys == DOMAIN RotIdle.key_usage

\* a choice among all keys, whatever their usage
AnyKeys(key_usage) == DOMAIN key_usage

\* least_used_keys of get_key
LeastUsedKeys(key_usage) ==
    { k \in DOMAIN key_usage : \A j \in DOMAIN key_usage : key_usage[k] <= key_usage[j] }

\* create_genai_model is called: used_keys = set(), the loop starts
CreateGenaiModel ==
    /\ rot.pc \in {"idle", "done"}
    /\ rot.calls < MaxModelCalls
    /\ rot' = [rot EXCEPT !.calls = @ + 1, !.pc = "loop", !.attempt = 0,
                          !.current_key = "", !.used_keys = {}, !.picks = <<>>,
                          !.outcome = "none"]
    /\ UNCHANGED <<tVars, bulk, dash, sync, adp>>

\* get_key: random.choice among the least used keys, whose count goes up by
\* one; a key already tried in this call costs the attempt ("continue"), and
\* the loop running out raises RuntimeError
GetKey(selected_key) ==
    /\ rot.pc = "loop"
    /\ selected_key \in LeastUsedKeys(rot.key_usage)
    /\ rot' = [rot EXCEPT
                  !.key_usage[selected_key] = @ + 1,
                  !.current_key = selected_key,
                  !.picks = Append(@, selected_key),
                  !.attempt = IF selected_key \in rot.used_keys THEN @ + 1 ELSE @,
                  !.pc = IF selected_key \notin rot.used_keys THEN "configure"
                         ELSE IF rot.attempt + 1 < max_retries THEN "loop" ELSE "done",
                  !.outcome = IF selected_key \in rot.used_keys
                                 /\ rot.attempt + 1 >= max_retries
                              THEN "runtime_error" ELSE @]
    /\ UNCHANGED <<tVars, bulk, dash, sync, adp>>

\* genai.configure and GenerativeModel with the current key: the model is
\* returned, or the except block marks the key failed (+10) and re-raises
\* on the last attempt or when every key has been tried
ConfigureModel(ok) ==
    /\ rot.pc = "configure"
    /\ rot' = IF ok
              THEN [rot EXCEPT !.pc = "done", !.outcome = "model"]
              ELSE [rot EXCEPT
                      !.key_usage[rot.current_key] = @ + 10,
                      !.used_keys = @ \cup {rot.current_key},
                      !.attempt = @ + 1,
                      !.pc = IF rot.attempt = max_retries - 1
                                \/ Cardinality(GeminiKeys)
                                      <= Cardinality(rot.used_keys \cup {rot.current_key})
                             THEN "done" ELSE "loop",
                      !.outcome = IF rot.attempt = max_retries - 1
                                     \/ Cardinality(GeminiKeys)
                                           <= Cardinality(rot.used_keys \cup {rot.current_key})
                                  THEN "raised" ELSE @]
    /\ UNCHANGED <<tVars, bulk, dash, sync, adp>>

\* ---------------------------------------------------------------------------
\* Synchronous submission: api.py receive_transaction with wait=True

\* lines 240-264: the body is decoded and the run is triggered
SyncSubmit(empty_body, accepted) ==
    /\ sync.pc = "idle"
    /\ IF empty_body
       THEN /\ accepted
            /\ sync' = [sync EXCEPT !.pc = "done", !.response = "400"]
            /\ UNCHANGED tVars
       ELSE /\ trigger_airflow_dag(accepted)
            /\ sync' = IF accepted
                       THEN [sync EXCEPT !.pc = "polling"]
                       ELSE [sync EXCEPT !.pc = "done", !.response = "500"]
    /\ UNCHANGED <<bulk, dash, libVars>>

\* what one pass of the poll loop returns or raises for the engine state e
SyncPollResponse(e) ==
    IF e = "success"
    THEN IF ApiLoad(fs, "risk_assessment.json", NoSub) # None THEN "assessment"
         ELSE IF resultFile THEN "legacy_result"
         ELSE "none"
    ELSE IF e \in {"failed", "error"} THEN "500"
    ELSE "none"

\* lines 271-301: one pass of the poll loop
SyncPoll(e) ==
    /\ sync.pc = "polling"
    /\ e \in EngineAnswers
    /\ Fault(e # EngineTruth)
    /\ sync' = [pc |-> IF SyncPollResponse(e) = "none" THEN "polling" ELSE "done",
                seen |-> e,
                response |-> SyncPollResponse(e)]
    /\ UNCHANGED <<fs, resultFile, store, task, tries, mig, migRuns, migPre, rd,
                   lastStatus, everCompleted, puts, lastPut, queries, run, conf, xcom,
                   engine, fan, cb, ns, creators, bulk, dash, libVars>>

\* lines 303-307: the loop condition fails, the deadline has passed
SyncTimeout ==
    /\ sync.pc = "polling"
    /\ sync' = [sync EXCEPT !.pc = "done", !.response = "504"]
    /\ UNCHANGED <<tVars, bulk, dash, libVars>>

---------------------------------------------------------------------------
(* Specifications *)

Next ==
    \/ \E accepted \in BOOLEAN : Submit(accepted)
    \/ \E t \in Tasks : MarkUpstreamFailed(t)
    \/ GetTransactionData
    \/ \E ok \in BOOLEAN : ExtractEntities(ok)
    \/ \E ok \in BOOLEAN : GetEntityHistory(ok)
    \/ \E ok \in BOOLEAN : ProcessOrganizations(ok)
    \/ \E ok \in BOOLEAN : ProcessPeople(ok)
    \/ \E ok \in BOOLEAN : ProcessDiscoveredPeople(ok)
    \/ CombineResults
    \/ \E outcome \in AssessOutcomes : AssessRisk(outcome)
    \/ OrganizeKnowledgeBase
    \/ MigrateBegin
    \/ MigrateCheck
    \/ \E outcome \in CopyOutcomes : MigrateCopy(outcome)
    \/ MigrateRemove
    \/ MigrateReturn
    \/ StoreInNeo4j
    \/ \E delivered \in BOOLEAN : SendCallback(delivered)
    \/ FinishRun
    \/ StatusStart
    \/ ReaderStep
    \/ \E e \in {"unknown", "error", "running", "success", "failed"} : StatusFinish(e)
    \/ \E ok \in BOOLEAN : ApiEntityHistory(ok)

Spec == Init /\ [][Next]_vars

\* A DAG run started at the engine itself, with any conf, under either
\* kind of engine.
ConfChoices ==
    [has_data : BOOLEAN, has_id : BOOLEAN, has_callback : BOOLEAN]

InitDag ==
    /\ faults = 0
    /\ fs = EmptyFs
    /\ resultFile = FALSE
    /\ store = NoEntry
    /\ task = [t \in Tasks |-> "none"]
    /\ tries = 0
    /\ mig = MigIdle
    /\ migRuns = 0
    /\ migPre = <<>>
    /\ rd = RdIdle
    /\ lastStatus = "none"
    /\ everCompleted = FALSE
    /\ puts = 0
    /\ lastPut = NoPut
    /\ queries = 0
    /\ run = "running"
    /\ conf \in ConfChoices
    /\ xcom = [t \in Tasks |-> XNone]
    /\ engine \in EngineKinds
    /\ fan = FanIdle
    /\ cb = NoCallback
    /\ bulk = BulkIdle
    /\ dash = DashIdle
    /\ sync = SyncIdle
    /\ adp = AdpIdle
    /\ rot = RotIdle
    /\ ns = <<>>
    /\ creators = {}

NextDag ==
    \/ \E t \in Tasks : MarkUpstreamFailed(t)
    \/ GetTransactionData
    \/ \E ok \in BOOLEAN : ExtractEntities(ok)
    \/ \E ok \in BOOLEAN : GetEntityHistory(ok)
    \/ \E ok \in BOOLEAN : ProcessOrganizations(ok)
    \/ \E ok \in BOOLEAN : ProcessPeople(ok)
    \/ \E ok \in BOOLEAN : ProcessDiscoveredPeople(ok)
    \/ CombineResults
    \/ \E outcome \in AssessOutcomes : AssessRisk(outcome)
    \/ OrganizeKnowledgeBase
    \/ MigrateBegin
    \/ MigrateCheck
    \/ \E outcome \in CopyOutcomes : MigrateCopy(outcome)
    \/ MigrateRemove
    \/ MigrateReturn
    \/ StoreInNeo4j
    \/ \E delivered \in BOOLEAN : SendCallback(delivered)
    \/ FinishRun

SpecDag == InitDag /\ [][NextDag]_vars

\* A DAG run in which the list a mapped entity task is expanded over may be
\* empty.
NextEmpty ==
    \/ NextDag
    \/ \E t \in Tasks : SkipEmpty(t)
    \/ \E t \in Tasks : MarkSkipped(t)

SpecEmpty == InitDag /\ [][NextEmpty]_vars

\* A legacy transaction: migrations and API reads of its folder.
InitStore ==
    /\ faults = 0
    /\ fs = LegacyFolder
    /\ resultFile = FALSE
    /\ store = NoEntry
    /\ task = [t \in Tasks |-> "none"]
    /\ tries = 0
    /\ mig = MigIdle
    /\ migRuns = 0
    /\ migPre = <<>>
    /\ rd = RdIdle
    /\ lastStatus = "none"
    /\ everCompleted = FALSE
    /\ puts = 0
    /\ lastPut = NoPut
    /\ queries = 0
    /\ run = "none"
    /\ conf = NoConf
    /\ xcom = [t \in Tasks |-> XNone]
    /\ engine = "returns_none"
    /\ fan = FanIdle
    /\ cb = NoCallback
    /\ bulk = BulkIdle
    /\ dash = DashIdle
    /\ sync = SyncIdle
    /\ adp = AdpIdle
    /\ rot = RotIdle
    /\ ns = <<>>
    /\ creators = {}

NextStore ==
    \/ OperatorMigrate
    \/ MigrateBegin
    \/ MigrateCheck
    \/ \E outcome \in CopyOutcomes : MigrateCopy(outcome)
    \/ MigrateRemove
    \/ MigrateReturn
    \/ \E p \in GetPaths : ApiGetStart(p)
    \/ ReaderStep
    \/ ApiGetReturn

SpecStore == InitStore /\ [][NextStore]_vars

\* A new transaction id and MaxCallers concurrent first callers.
InitNs ==
    /\ faults = 0
    /\ fs = EmptyFs
    /\ resultFile = FALSE
    /\ store = NoEntry
    /\ task = [t \in Tasks |-> "none"]
    /\ tries = 0
    /\ mig = MigIdle
    /\ migRuns = 0
    /\ migPre = <<>>
    /\ rd = RdIdle
    /\ lastStatus = "none"
    /\ everCompleted = FALSE
    /\ puts = 0
    /\ lastPut = NoPut
    /\ queries = 0
    /\ run = "none"
    /\ conf = NoConf
    /\ xcom = [t \in Tasks |-> XNone]
    /\ engine = "returns_none"
    /\ fan = FanIdle
    /\ cb = NoCallback
    /\ bulk = BulkIdle
    /\ dash = DashIdle
    /\ sync = SyncIdle
    /\ adp = AdpIdle
    /\ rot = RotIdle
    /\ ns = [c \in Callers |-> NsIdle]
    /\ creators = {}

NextNs ==
    \E c \in Callers :
        \/ \E kind \in {"api", "dag"} : NsCall(c, kind)
        \/ NsPreTest(c)
        \/ NsTestRoot(c)
        \/ NsMakeRoot(c)
        \/ NsRootMetadata(c)
        \/ NsTestFolder(c)
        \/ NsMakeFolder(c)
        \/ NsFolderMetadata(c)
        \/ NsWriteFact(c)

SpecNs == InitNs /\ [][NextNs]_vars

\* The API process alone: submissions, callbacks from any sender and status
\* queries.
NextApi ==
    \/ \E accepted \in BOOLEAN : Submit(accepted)
    \/ \E match, saved \in BOOLEAN, status \in CallbackStatuses :
          ProcessCallback(match, status, saved)
    \/ StatusStart
    \/ ReaderStep
    \/ \E e \in {"unknown", "error", "running", "success", "failed"} : StatusFinish(e)

SpecApi == Init /\ [][NextApi]_vars

\* One bulk request.
NextBulk ==
    \/ \E format \in BulkFormats, wait \in BOOLEAN, blocks \in BodyChoices :
          BulkStart(format, wait, blocks)
    \/ \E outcome \in BulkOutcomes(TRUE) \cup BulkOutcomes(FALSE) : BulkItem(outcome)
    \/ BulkReturn

SpecBulk == Init /\ [][NextBulk]_vars

\* Results accumulate and the dashboard is asked at any time.
NextDash ==
    \/ \E r \in ResultChoices : AddResult(r)
    \/ GetDashboardStats

SpecDash == Init /\ [][NextDash]_vars

\* create_genai_model calls on the one rotator of the process.
NextRot ==
    \/ CreateGenaiModel
    \/ \E k \in GeminiKeys : GetKey(k)
    \/ \E ok \in BOOLEAN : ConfigureModel(ok)

SpecRot == Init /\ [][NextRot]_vars

\* Adapter calls for T, from entity tasks and direct.
NextAdp ==
    \E kind \in {"organization", "person"}, name \in Organizations \cup PersonNames,
       a \in {"opencorporates", "sanctions", "wikidata", "news", "pep"},
       form \in CallForms : AdapterCall(kind, name, a, form)

SpecAdp == Init /\ [][NextAdp]_vars

\* The dashboard asked once about every results folder.
InitAgg ==
    /\ faults = 0
    /\ fs = EmptyFs
    /\ resultFile = FALSE
    /\ store = NoEntry
    /\ task = [t \in Tasks |-> "none"]
    /\ tries = 0
    /\ mig = MigIdle
    /\ migRuns = 0
    /\ migPre = <<>>
    /\ rd = RdIdle
    /\ lastStatus = "none"
    /\ everCompleted = FALSE
    /\ puts = 0
    /\ lastPut = NoPut
    /\ queries = 0
    /\ run = "none"
    /\ conf = NoConf
    /\ xcom = [t \in Tasks |-> XNone]
    /\ engine = "returns_none"
    /\ fan = FanIdle
    /\ cb = NoCallback
    /\ bulk = BulkIdle
    /\ \E l \in ResultsFolders : dash = [DashIdle EXCEPT !.results_folder = l]
    /\ sync = SyncIdle
    /\ adp = AdpIdle
    /\ rot = RotIdle
    /\ ns = <<>>
    /\ creators = {}

NextAgg == DashboardOnFolder

SpecAgg == InitAgg /\ [][NextAgg]_vars

\* A synchronous submission and the run it waits for.
NextSync ==
    \/ \E empty_body, accepted \in BOOLEAN : SyncSubmit(empty_body, accepted)
    \/ \E e \in {"unknown", "error", "running", "success", "failed"} : SyncPoll(e)
    \/ SyncTimeout
    \/ \E t \in Tasks : MarkUpstreamFailed(t)
    \/ GetTransactionData
    \/ \E ok \in BOOLEAN : ExtractEntities(ok)
    \/ \E ok \in BOOLEAN : GetEntityHistory(ok)
    \/ \E ok \in BOOLEAN : ProcessOrganizations(ok)
    \/ \E ok \in BOOLEAN : ProcessPeople(ok)
    \/ \E ok \in BOOLEAN : ProcessDiscoveredPeople(ok)
    \/ CombineResults
    \/ \E outcome \in AssessOutcomes : AssessRisk(outcome)
    \/ OrganizeKnowledgeBase
    \/ MigrateBegin
    \/ MigrateCheck
    \/ \E outcome \in CopyOutcomes : MigrateCopy(outcome)
    \/ MigrateRemove
    \/ MigrateReturn
    \/ StoreInNeo4j
    \/ \E delivered \in BOOLEAN : SendCallback(delivered)
    \/ FinishRun

SpecSync == Init /\ [][NextSync]_vars

\* The entity tasks of a run whose get_transaction_data, extract_entities and
\* get_entity_history have succeeded.
FanFs ==
    DagSave(
        DagSave(WriteFile(DagGetTransactionFolder(initialize_knowledge_base(EmptyFs)),
                          <<"transaction.txt">>, Doc("text")),
                "entities.json", Doc("entities"), NoSub),
        "entity_history.json", Doc("history_dag"), NoSub)

FanHead == {"get_transaction_data", "extract_entities", "get_entity_history"}

InitFan ==
    /\ faults = 0
    /\ fs = FanFs
    /\ resultFile = FALSE
    /\ store = NoEntry
    /\ task = [t \in Tasks |-> IF t \in FanHead THEN "success" ELSE "none"]
    /\ tries = 0
    /\ mig = MigIdle
    /\ migRuns = 0
    /\ migPre = <<>>
    /\ rd = RdIdle
    /\ lastStatus = "none"
    /\ everCompleted = FALSE
    /\ puts = 0
    /\ lastPut = DagPut("entity_history.json", NoSub)
    /\ queries = 0
    /\ run = "running"
    /\ conf = ApiConf
    /\ xcom = [t \in Tasks |->
                 IF t = "get_transaction_data" THEN [kind |-> "info", callback_url |-> TRUE]
                 ELSE IF t = "extract_entities" THEN [kind |-> "entities"]
                 ELSE IF t = "get_entity_history" THEN [kind |-> "history", found |-> TRUE]
                 ELSE XNone]
    /\ engine = "returns_none"
    /\ \E people \in OriginalChoices : fan = [FanIdle EXCEPT !.people = people]
    /\ cb = NoCallback
    /\ bulk = BulkIdle
    /\ dash = DashIdle
    /\ sync = SyncIdle
    /\ adp = AdpIdle
    /\ rot = RotIdle
    /\ ns = <<>>
    /\ creators = {}

NextFan ==
    \/ \E o \in Organizations, out \in OutcomeChoices("organization"),
          associated \in AssociatedChoices : ProcessOrganization(o, out, associated)
    \/ ExtractDiscoveredPeople
    \/ \E p \in PersonNames, out \in OutcomeChoices("person") : ProcessPerson(p, out)
    \/ \E p \in PersonNames, out \in OutcomeChoices("person") :
          ProcessDiscoveredPerson(p, out)

SpecFan == InitFan /\ [][NextFan]_vars

\* The entity tasks of a run with every adapter of a task ending alike; the
\* scheduler runs every mapped task instance that is ready.
RoundOutcomes(kind) ==
    { o \in OutcomeChoices(kind) : \A a, b \in AdapterNames(kind) : o[a] = o[b] }

NextRound ==
    \/ \E o \in Organizations, out \in RoundOutcomes("organization"),
          associated \in AssociatedChoices : ProcessOrganization(o, out, associated)
    \/ ExtractDiscoveredPeople
    \/ \E p \in PersonNames, out \in RoundOutcomes("person") : ProcessPerson(p, out)
    \/ \E p \in PersonNames, out \in RoundOutcomes("person") :
          ProcessDiscoveredPerson(p, out)

SpecRound == InitFan /\ [][NextRound]_vars /\ WF_vars(NextRound)

\* extract_discovered_people alone, on every list of discovered people of
\* at most MaxDiscovered entries; "" is a person without a name.
MaxDiscovered == 4

DiscoveredLists == UNION { [1..k -> PersonNames \cup {""}] : k \in 0..MaxDiscovered }

InitDedup ==
    /\ faults = 0
    /\ fs = FanFs
    /\ resultFile = FALSE
    /\ store = NoEntry
    /\ task = [t \in Tasks |-> IF t \in FanHead THEN "success" ELSE "none"]
    /\ tries = 0
    /\ mig = MigIdle
    /\ migRuns = 0
    /\ migPre = <<>>
    /\ rd = RdIdle
    /\ lastStatus = "none"
    /\ everCompleted = FALSE
    /\ puts = 0
    /\ lastPut = DagPut("entity_history.json", NoSub)
    /\ queries = 0
    /\ run = "running"
    /\ conf = ApiConf
    /\ xcom = [t \in Tasks |->
                 IF t = "get_transaction_data" THEN [kind |-> "info", callback_url |-> TRUE]
                 ELSE IF t = "extract_entities" THEN [kind |-> "entities"]
                 ELSE IF t = "get_entity_history" THEN [kind |-> "history", found |-> TRUE]
                 ELSE XNone]
    /\ engine = "returns_none"
    /\ \E people \in DiscoveredLists :
          fan = [FanIdle EXCEPT !.org =
                    [o \in Organizations |-> [done |-> TRUE, discovered_people |-> people]]]
    /\ cb = NoCallback
    /\ bulk = BulkIdle
    /\ dash = DashIdle
    /\ sync = SyncIdle
    /\ adp = AdpIdle
    /\ rot = RotIdle
    /\ ns = <<>>
    /\ creators = {}

NextDedup == ExtractDiscoveredPeople

SpecDedup == InitDedup /\ [][NextDedup]_vars

---------------------------------------------------------------------------
(* Claims *)

AllTasksTerminal == \A t \in Tasks : task[t] \in Terminal

\* C1: once every task of the run of a transaction submitted with non-empty
\* data is terminal, load_transaction_data(T, "risk_assessment.json") returns
\* a document, whatever failed on the way.
C1_AssessmentPresentAfterRun ==
    AllTasksTerminal => ApiLoad(fs, "risk_assessment.json", NoSub) # None

\* C2: once get_transaction_status has answered with the completed
\* RiskAssessment, no later answer carries another status.
C2_CompletedNeverRegresses ==
    [][everCompleted => lastStatus' \in {lastStatus, "completed"}]_vars

\* C3: when migrate returns true, every file that was at a covered legacy
\* path when it started is gone from that path and its content is readable
\* at its versioned path.
C3_MigrateMovesEveryLegacyFile ==
    (mig.pc = "done" /\ mig.result) =>
        \A q \in DOMAIN migPre :
            ~IsFile(fs, q) /\ ReadJson(fs, VersionedOf(q)) = migPre[q]

\* C4: a legacy original disappears only when its content is readable at its
\* versioned path, and a successful migrate leaves no covered document in
\* both layouts.
C4_DeleteOnlyAfterCopy ==
    [][ /\ \A q \in CoveredLegacyFiles(fs) :
              ~IsFile(fs', q) => ReadJson(fs', VersionedOf(q)) = fs.files[q]
        /\ (mig'.pc = "done" /\ mig'.result) =>
              \A q \in CoveredLegacyFiles(fs') : ~Exists(fs', VersionedOf(q)) ]_vars

\* C5: a load_transaction_data call for a document that existed when the
\* call started finds it, however its steps interleave with a migration.
C5_ConcurrentGetFinds ==
    (rd.pc = "done" /\ rd.existed) => rd.result # None

\* C6: migrate run on the outcome of migrate changes nothing: from every
\* reachable folder two runs in succession leave the folder one run leaves,
\* and the folder a migrate call returned true on is left as it is.
C6_MigrateIdempotent ==
    /\ migrate_existing_transaction(migrate_existing_transaction(fs))
          = migrate_existing_transaction(fs)
    /\ (mig.pc = "done" /\ mig.result) => migrate_existing_transaction(fs) = fs

\* A second migrate call in succession has returned true on a migrated folder.
C6_Witness ==
    /\ mig.pc = "done" /\ mig.result /\ migRuns = 2
    /\ fs # LegacyFolder
    /\ ~IsFile(fs, <<"entities.json">>)

LogicalPaths ==
    GetPaths \cup { <<"risk_assessment.json", NoSub>>, <<"metadata.json", NoSub>>,
                    <<"raw_assessment_data.json", NoSub>> }

\* C8: load_transaction_data returns the document at the versioned path when
\* one is there, else the document at the legacy path when one is there,
\* else None.
C8_LoadResolutionOrder ==
    \A p \in LogicalPaths :
        LET new == LoadNewPath(p[1], p[2])
            old == LoadOldPath(p[1], p[2])
        IN  ApiLoad(fs, p[1], p[2]) =
              IF new # NoPath /\ IsFile(fs, new) /\ fs.files[new].kind = "doc"
              THEN fs.files[new]
              ELSE IF IsFile(fs, old) /\ fs.files[old].kind # "corrupt"
              THEN fs.files[old]
              ELSE None

\* Both layouts hold a document for entity_history.json, with different
\* contents, and the load returns the versioned one.
C8_Witness ==
    /\ IsFile(fs, <<"entity_history.json">>)
    /\ IsFile(fs, kb_file_mapping["entity_history.json"])
    /\ fs.files[<<"entity_history.json">>] # fs.files[kb_file_mapping["entity_history.json"]]
    /\ ApiLoad(fs, "entity_history.json", NoSub) = fs.files[kb_file_mapping["entity_history.json"]]

\* C9: every save_transaction_data call for a root file of the static table
\* writes at the file's versioned path.
C9_PutsWriteVersioned ==
    (lastPut.file \in DOMAIN kb_file_mapping /\ lastPut.sub = NoSub) =>
        lastPut.path = kb_file_mapping[lastPut.file]

\* C10: of the concurrent first callers exactly one creates the skeleton,
\* and the transaction folder is never there without all its categories.
C10_SkeletonFirstWriterWins ==
    /\ Cardinality(creators) <= 1
    /\ Exists(fs, Root) => SkeletonDirs \subseteq fs.dirs

\* The files of the folder that are Facts: everything but the folders'
\* .metadata.json display files.
Facts(f) == { q \in DOMAIN f.files : f.files[q].kind # "folder_metadata" }

\* C11: whenever a Fact is in the transaction folder, every category folder
\* of the skeleton is there, and a single caller created the skeleton.
C11_SkeletonBeforeFacts ==
    Facts(fs) # {} =>
        /\ SkeletonDirs \subseteq fs.dirs
        /\ Cardinality(creators) <= 1

C14_JoinAlwaysSucceeds ==
    /\ task["combine_results"] # "upstream_failed"
    /\ task["combine_results"] \in Terminal =>
          /\ \A u \in Upstream("combine_results") : task[u] \in Terminal
          /\ task["combine_results"] = "success"
          /\ xcom["combine_results"].kind = "document"
          /\ xcom["combine_results"].entities # XNone
          /\ xcom["combine_results"].entity_history # XNone
          /\ xcom["combine_results"].organizations \in {"results", "empty"}
          /\ xcom["combine_results"].people \in {"results", "empty"}
          /\ xcom["combine_results"].discovered_people \in {"results", "empty"}

\* C15: after extract_entities has failed for good, assess_risk returns no
\* risk assessment and none is saved.
C15_ExtractFailureAborts ==
    task["extract_entities"] = "failed" =>
        /\ xcom["assess_risk"] = XNone
        /\ ApiLoad(fs, "risk_assessment.json", NoSub) = None

\* C16: a failure inside generate_risk_assessment never fails assess_risk:
\* the task succeeds and returns the result with risk_score 0.5,
\* confidence_score 0 and a reason naming the error.
C16_AssessDegradesOnFailure ==
    /\ task["assess_risk"] # "failed"
    /\ (task["assess_risk"] = "success" /\ xcom["assess_risk"] # ModelAssessment) =>
          /\ xcom["assess_risk"].risk_score = 5
          /\ xcom["assess_risk"].confidence_score = 0
          /\ xcom["assess_risk"].reason = "error"

\* C17: send_callback starts only after organize_knowledge_base and
\* store_in_neo4j are both terminal, it is never skipped whatever their
\* states, and a run without a callback address ends the task in success
\* with nothing sent.
C17_NotifyAfterPersist ==
    /\ task["send_callback"] # "none" =>
          /\ task["organize_knowledge_base"] \in Terminal
          /\ task["store_in_neo4j"] \in Terminal
    /\ task["send_callback"] # "upstream_failed"
    /\ (task["send_callback"] \in Terminal /\ ~conf.has_callback) =>
          /\ task["send_callback"] = "success"
          /\ xcom["send_callback"] = [kind |-> "callback", callback_sent |-> FALSE]

\* C13: the list extract_discovered_people returns holds no person whose
\* lower-cased name is that of a person of the original extraction, and is
\* empty when every discovered name is one of those.
C13_DiscoveredExcludesOriginal ==
    fan.discovered.done =>
        LET known == { Lower(q) : q \in fan.people }
            found == UNION { SeqRange(fan.org[o].discovered_people) : o \in Organizations }
        IN  /\ \A i \in DOMAIN fan.discovered.list :
                  Lower(fan.discovered.list[i]) \notin known
            /\ (\A q \in found : Lower(q) \in known) => fan.discovered.list = <<>>

\* C18: whatever subset of the adapters of an entity fails, the entity task
\* succeeds, its result has one entry per adapter, a failed adapter's entry
\* has status failed and a reason, and every adapter that did not fail has
\* run and saved its result.
C18_AdapterFailureIsolated ==
    fan.last.kind # "none" =>
        LET kind == IF fan.last.kind = "organization" THEN "organization" ELSE "person"
        IN  /\ fan.last.state = "success"
            /\ DOMAIN fan.last.results = AdapterNames(kind)
            /\ \A a \in AdapterNames(kind) :
                  /\ fan.last.results[a].status = fan.last.out[a]
                  /\ fan.last.out[a] = "failed" => fan.last.results[a].has_reason
                  /\ fan.last.out[a] = "success" =>
                        IsFile(fs, DagSavePath(JsonName(fan.last.name),
                                               AdapterSubfolder(kind, a)))

\* an organization task whose first and third adapters failed
C18_Witness ==
    /\ fan.last.kind = "organization"
    /\ fan.last.out["opencorporates"] = "failed"
    /\ fan.last.out["sanctions"] = "success"
    /\ fan.last.out["wikidata"] = "failed"
    /\ fan.last.out["news"] = "success"

\* C19: a status query for a transaction that has no risk assessment, no
\* metadata.json, no transaction_store entry and no result_<T>.json, and of
\* which the engine knows no run, is answered with not-found.
C19_UnknownIsNotFound ==
    [][(/\ rd.purpose = "status"
        /\ rd.pc = "done"
        /\ rd' = RdIdle
        /\ ApiLoad(fs, "risk_assessment.json", NoSub) = None
        /\ ApiLoad(fs, "metadata.json", NoSub) = None
        /\ ~store.known
        /\ ~resultFile
        /\ run = "none")
       => lastStatus' = "not_found"]_vars

\* C20: a callback whose body names another transaction is answered 400 and
\* changes neither transaction_store nor metadata.json; a callback that
\* matches and is answered 200 leaves its status in the transaction_store
\* entry and in metadata.json.
C20_CallbackValidated ==
    [][cb' # cb =>
         /\ ~cb'.match =>
               /\ cb'.code = 400
               /\ store' = store
               /\ fs' = fs
         /\ (cb'.match /\ cb'.code = 200) =>
               /\ store'.known
               /\ store'.status = cb'.status
               /\ ApiLoad(fs', "metadata.json", NoSub) = Metadata(cb'.status)]_vars

\* a rejected callback after an accepted one that reported failed
C20_Witness ==
    /\ cb.code = 400
    /\ store.known
    /\ store.status = "failed"
    /\ ApiLoad(fs, "metadata.json", NoSub) = Metadata("failed")

BulkFailing == {"trigger_error", "run_failed", "timeout", "run_failed_late"}

\* C21: in a bulk request the failure of an item leaves a failure entry with
\* the item's index, every item is handled whatever happened to the others,
\* and the request is answered with the summary.
C21_BulkItemFailureIsolated ==
    /\ \A k \in 1..Len(bulk.outs) :
          bulk.outs[k] \in BulkFailing =>
              \E j \in DOMAIN bulk.failed : bulk.failed[j].index = k - 1
    /\ (bulk.pc = "done" /\ bulk.transactions # <<>>) =>
          /\ bulk.response.code = 200
          /\ Len(bulk.outs) = Len(bulk.transactions)
          /\ \A k \in 1..Len(bulk.outs) :
                bulk.outs[k] # "trigger_error" => (k - 1) \in bulk.triggered

\* the first of three items fails at its trigger, the other two are submitted
C21_Witness ==
    /\ bulk.pc = "done"
    /\ bulk.outs = <<"trigger_error", "triggered", "triggered">>
    /\ bulk.triggered = {1, 2}
    /\ bulk.response.code = 200

NonEmptyBlocks(blocks) == { k \in DOMAIN blocks : Strip(blocks[k]) # "" }

\* C22: for a txt body the pieces that are empty after trimming are not
\* submitted: the transactions are the other pieces, the total counts only
\* those, and no result or failure entry stands for a dropped piece.
C22_EmptyBlocksDropped ==
    (bulk.format = "txt" /\ bulk.pc \in {"loop", "done"}) =>
        /\ Len(bulk.transactions) = Cardinality(NonEmptyBlocks(bulk.blocks))
        /\ \A k \in DOMAIN bulk.transactions : bulk.transactions[k] # ""
        /\ \A j \in DOMAIN bulk.results : bulk.results[j].index < Cardinality(NonEmptyBlocks(bulk.blocks))
        /\ \A j \in DOMAIN bulk.failed : bulk.failed[j].index < Cardinality(NonEmptyBlocks(bulk.blocks))
        /\ bulk.response.code = 200 =>
              bulk.response.total = Cardinality(NonEmptyBlocks(bulk.blocks))

\* three pieces of which the second is blank: total 2, 2 processed, 0 failed
C22_Witness ==
    /\ bulk.format = "txt"
    /\ bulk.blocks = <<"pay", " ", "pay">>
    /\ bulk.response = [code |-> 200, total |-> 2, processed |-> 2, failed |-> 0]

\* C23: the three dashboard buckets are disjoint and cover every numeric
\* risk score, so the low, medium and high counts add up to the total.
C23_BucketsPartition ==
    /\ \A r \in ResultChoices :
          /\ LowRisk(r) \/ MediumRisk(r) \/ HighRisk(r)
          /\ ~(LowRisk(r) /\ MediumRisk(r))
          /\ ~(MediumRisk(r) /\ HighRisk(r))
          /\ ~(LowRisk(r) /\ HighRisk(r))
    /\ dash.stats.asked =>
          dash.stats.lowRiskTransactions + dash.stats.mediumRiskTransactions
              + dash.stats.highRiskTransactions = dash.stats.totalTransactions

\* the dashboard counted results on both thresholds and between them
C23_Witness ==
    /\ dash.stats.asked
    /\ dash.stats.totalTransactions = 3
    /\ dash.stats.lowRiskTransactions = 0
    /\ dash.stats.mediumRiskTransactions = 2
    /\ dash.stats.highRiskTransactions = 1
    /\ \E k \in DOMAIN dash.all_results : ScoreOf(dash.all_results[k]) = 7
    /\ \E k \in DOMAIN dash.all_results : ScoreOf(dash.all_results[k]) = 4

\* C24: a synchronous submission is answered with the risk assessment, or
\* with the error of a missing body (400) or of the poll deadline (504) and
\* no other error; and once a poll has seen the run succeed the deadline
\* error is not what the caller gets.
C24_SyncOutcomes ==
    /\ sync.response \in {"none", "assessment", "legacy_result", "400", "504"}
    /\ sync.response = "504" => sync.seen # "success"

\* C25: the assessment data read back from the transaction folder has the same
\* entities, and per entity the same providers, as the assessment data
\* passed on by the entity tasks of the run.
C25_RereadEqualsFlow ==
    /\ DOMAIN RereadResults(fs, "organization") = DOMAIN FlowResults("organization")
    /\ DOMAIN RereadResults(fs, "person") = DOMAIN FlowResults("person")
    /\ \A n \in DOMAIN FlowResults("organization") :
          RereadResults(fs, "organization")[n] = FlowResults("organization")[n]
    /\ \A n \in DOMAIN FlowResults("person") :
          RereadResults(fs, "person")[n] = FlowResults("person")[n]

\* C26: while the document of the latest save_transaction_data call is where
\* the call wrote it, load_transaction_data for the same name returns that
\* document, whatever the other layout holds.
C26_ReadAfterWrite ==
    (lastPut # NoPut /\ ReadJson(fs, lastPut.path) # None) =>
        ApiLoad(fs, lastPut.file, lastPut.sub) = fs.files[lastPut.path]

\* a status query answered from the metadata branch: the folder is there,
\* line 380 found no risk assessment and metadata.json can be read
MetadataBranchAnswers ==
    /\ rd.purpose = "status"
    /\ rd.pc = "done"
    /\ rd' = RdIdle
    /\ rd.folder
    /\ rd.result = None
    /\ ApiLoad(fs, "metadata.json", NoSub) # None

\* C27: a status query for a transaction with metadata.json and no risk
\* assessment is answered with completed, failed or processing, and with
\* failed when the run has failed; never with a state name of the engine.
C27_MetadataStatusCanonical ==
    [][MetadataBranchAnswers =>
          /\ lastStatus' \in {"completed", "failed", "processing"}
          /\ run = "failed" => lastStatus' = "failed"]_vars

\* C28: a status query whose request to the engine fails, for a transaction
\* the registry knows, is not answered with the error itself: the answer
\* comes from the next place looked at.
C28_EngineErrorFallsThrough ==
    [][(/\ rd.purpose = "status"
        /\ rd.pc = "done"
        /\ rd' = RdIdle
        /\ store.known
        /\ faults' # faults)
       => lastStatus' \notin {"error", "unknown"}]_vars

FanOutTasks == {"process_organizations", "process_people", "process_discovered_people"}

\* C29: combine_results has not run while an entity task group is not yet
\* terminal, and assess_risk has not run unless combine_results succeeded.
C29_JoinAfterFanOut ==
    /\ task["combine_results"] # "none" =>
          \A u \in FanOutTasks : task[u] \in Terminal
    /\ task["assess_risk"] \in {"success", "failed"} =>
          task["combine_results"] = "success"

C29_Witness ==
    /\ task["combine_results"] = "success"
    /\ task["assess_risk"] = "success"
    /\ \E u \in FanOutTasks : task[u] = "upstream_failed"

\* C30: an entity task never saves to a path that another task of the run
\* has already written.
C30_OneWriterPerPath ==
    [][fan'.last # fan.last =>
          \A q \in WrittenPaths(fan'.last.kind, fan'.last.name, fan'.last.out) :
              ~IsFile(fs, q)]_vars

\* C31: two names of a run have the same deduplication key exactly when they
\* have the same file name and the same key in the result maps.
C31_EntityKeyIsOneFunction ==
    \A a, b \in NamesOfRun :
        /\ (DedupKey(a) = DedupKey(b)) <=> (PathKey(a) = PathKey(b))
        /\ (DedupKey(a) = DedupKey(b)) <=> (JoinKey(a) = JoinKey(b))

\* the positions of the first occurrence of each lower-cased name
FirstOccurrences(people) ==
    { i \in DOMAIN people :
        /\ people[i] # ""
        /\ \A j \in 1..(i - 1) : Lower(people[j]) # Lower(people[i]) }

FanDone ==
    /\ \A o \in Organizations : fan.org[o].done
    /\ fan.discovered.done
    /\ fan.persons = fan.people
    /\ fan.processed = SeqRange(fan.discovered.list)

\* the entity tasks that have run, and the most the run may have
EnrichmentTasks ==
    Cardinality({ o \in Organizations : fan.org[o].done })
        + Cardinality(fan.persons) + Cardinality(fan.processed)

EnrichmentBound ==
    Cardinality(Organizations) + Cardinality(fan.people)
        + Len(AllDiscovered([i \in DOMAIN OrgOrder |->
                                fan.org[OrgOrder[i]].discovered_people]))

\* C33: the list of discovered people is computed once and never grows
\* afterwards, the entity tasks of a run are never more than the extracted
\* entities plus the people discovered from the extracted organizations,
\* and every entity task of the run eventually has returned.
C33_SingleDiscoveryRound ==
    /\ [](EnrichmentTasks <= EnrichmentBound)
    /\ [][fan.discovered.done => fan'.discovered = fan.discovered]_vars
    /\ <>[]FanDone

C33_Witness ==
    /\ FanDone
    /\ fan.processed # {}
    /\ fan.persons # {}
    /\ EnrichmentTasks = EnrichmentBound

TimesCounted(id) ==
    Cardinality({ i \in DOMAIN dash.all_results : dash.all_results[i].transaction_id = id })

\* C35: once the dashboard has collected its results, every transaction that
\* has a folder and has a risk assessment in it or a legacy result file is
\* among them exactly once.
C35_CountedExactlyOnce ==
    dash.stats.asked =>
        \A id \in TxIds :
            (/\ dash.results_folder[id].folder
             /\ dash.results_folder[id].assessed \/ dash.results_folder[id].legacy # {})
                => TimesCounted(id) = 1

\* C36: a status query for a transaction that has no folder, no
\* transaction_store entry and no result_<T>.json leaves the results folder
\* and the transaction_store as they were.
C36_UnknownQueryWritesNothing ==
    [][(/\ rd.purpose = "status"
        /\ rd.pc = "done"
        /\ rd' = RdIdle
        /\ ~Exists(fs, Root)
        /\ ~store.known
        /\ ~resultFile)
       => (fs' = fs /\ store' = store)]_vars

\* C37: every result an adapter called for T has saved is in the folder of T.
C37_AdapterWritesInOwnNamespace ==
    \A w \in adp.written : w.namespace = "T"

\* C38: a callback with status completed has been delivered, or the
\* transaction_store entry of T says completed, only when assess_risk
\* returned a risk assessment of the reasoning service.
C38_CompletedOnlyAfterAssess ==
    ((cb.n > 0 /\ cb.status = "completed" /\ cb.code = 200)
        \/ (store.known /\ store.status = "completed"))
    => xcom["assess_risk"] = ModelAssessment

\* how many entries of a list of bulk entries carry the item index i
EntriesOf(entries, i) ==
    Cardinality({ k \in DOMAIN entries : entries[k].index = i })

\* C39: in the summary of a bulk request every item index is in exactly one
\* of results and failures, and processed + failed = total.
C39_BulkIndexInExactlyOne ==
    (bulk.pc = "done" /\ bulk.response.code = 200) =>
        /\ \A i \in 0..(Len(bulk.transactions) - 1) :
              EntriesOf(bulk.results, i) + EntriesOf(bulk.failed, i) = 1
        /\ bulk.response.processed + bulk.response.failed = bulk.response.total

\* C40: get_key returns a key whose usage count is minimal and raises only
\* that count, by one; a failed key gets 10 more and no other count changes;
\* a key that failed in the running call is not returned while another key
\* has a smaller count; a call makes at most max_retries attempts.
C40_LeastUsedKeyRotation ==
    /\ [][Len(rot'.picks) > Len(rot.picks) =>
            /\ \A j \in GeminiKeys :
                  rot.key_usage[rot'.current_key] <= rot.key_usage[j]
            /\ rot'.key_usage =
                  [rot.key_usage EXCEPT ![rot'.current_key] = @ + 1]
            /\ rot'.current_key \in rot.used_keys =>
                  \A j \in GeminiKeys :
                      rot.key_usage[j] >= rot.key_usage[rot'.current_key]]_vars
    /\ [][(rot.pc = "configure" /\ rot'.outcome # "model") =>
            rot'.key_usage =
                [rot.key_usage EXCEPT ![rot.current_key] = @ + 10]]_vars
    /\ [](Len(rot.picks) <= max_retries /\ rot.attempt <= max_retries)

C40_Witness ==
    /\ rot.pc = "done"
    /\ rot.outcome = "model"
    /\ Len(rot.picks) = 2
    /\ rot.used_keys = {rot.picks[1]}
    /\ rot.picks[2] # rot.picks[1]
    /\ rot.key_usage[rot.picks[1]] >= 11

=============================================================================
